---- MODULE Spec2Model ----
(***************************************************************************)
(* Model of the Item pipeline of rust-sam-app: the request router of the   *)
(* api-handler Lambda (handle_request, create_item, delete_item, get_item, *)
(* get_items, validate_item, error_response), the DynamoDbRepository of    *)
(* the shared crate, the Item / ItemEvent data model with its serde        *)
(* (de)serialisation, the AppError type, and the event-processor Lambda    *)
(* (handle_event, process_sqs_message).                                    *)
(*                                                                         *)
(* Text is modelled in two ways.  Item names and descriptions, whose       *)
(* characters and byte lengths the code inspects, are sequences of Unicode *)
(* code points.  Ids, classifications and error messages, which the code   *)
(* only copies and concatenates, are TLA+ strings.                         *)
(***************************************************************************)
EXTENDS Integers, Sequences, FiniteSets, TLC

VARIABLES
    table,      \* the DynamoDB table: id -> attribute map of the stored record
    queue,      \* the SQS queue: the message bodies sent so far, in order
    clock,      \* index of the current instant, read by Utc::now()
    pc,         \* per invocation: the await point the handler is suspended at
    req,        \* per invocation: the HTTP request being handled
    item,       \* per invocation: create_item's `item` / delete_item's looked-up `item`
    id,         \* per invocation: the id extracted from the path
    resp,       \* per invocation: what handle_request returned
    effects,    \* per invocation: the store and queue calls made, in order
    table0,     \* per invocation: the table when the request arrived
    queue0,     \* per invocation: the queue when the request arrived
    served,     \* number of requests received so far
    calls,      \* repository harness: the repository calls made, in order
    probe,      \* pure-function harness: the last function application
    audit,      \* per invocation: the AuditRecord the handler has built
    cpc,        \* event-processor: where handle_event is
    records,    \* event-processor: event.records, the batch being handled
    cursor,     \* event-processor: index of the record being processed
    handled,    \* event-processor: what process_sqs_message did, in order
    outcome     \* event-processor: what handle_event returned

\* The state of the event-processor Lambda.
evVars == <<cpc, records, cursor, handled, outcome>>

vars == <<table, queue, clock, pc, req, item, id, resp, effects, table0, queue0,
          served, calls, probe, audit, evVars>>

-----------------------------------------------------------------------------
(* Bounds of the model and constants of the program *)

MaxRequests == 2
MaxClock == 1
MaxCalls == 3
MaxBatch == 3
MaxConcurrentRequests == 3
MaxNameLen == 100
MaxDescLen == 1000

-----------------------------------------------------------------------------
(* Option<T> *)

None == [opt |-> "None"]
Some(x) == [opt |-> "Some", v |-> x]
IsSome(o) == o.opt = "Some"

-----------------------------------------------------------------------------
(* Rust String values that the code inspects: sequences of code points *)

Repeat(c, n) == [k \in 1..n |-> c]

\* str::len(): the length of the UTF-8 encoding in bytes.
Utf8Len(s) ==
    Len(s) + Cardinality({k \in DOMAIN s : s[k] >= 128})
           + Cardinality({k \in DOMAIN s : s[k] >= 2048})
           + Cardinality({k \in DOMAIN s : s[k] >= 65536})

\* str::contains(char)
Contains(s, c) == \E k \in DOMAIN s : s[k] = c

LT == 60
GT == 62
AMP == 38

-----------------------------------------------------------------------------
(* chrono::DateTime<Utc> and its RFC 3339 text form *)

\* A DateTime<Utc> is a count of seconds and of nanoseconds within the second.
DateTime(s, n) == [secs |-> s, nanos |-> n]

\* The instants Utc::now() returns, one per value of the clock.  Their
\* sub-second parts need zero, three, six and nine fraction digits.
NowNanos == <<0, 500000000, 250000, 7>>
Now(k) == DateTime(1000 + k, NowNanos[(k % 4) + 1])

\* SecondsFormat::AutoSi: the fraction is written with no digit, or with
\* three, six or nine digits, the fewest that lose nothing.
AutoSi(n) ==
    IF n = 0 THEN [digits |-> 0, value |-> 0]
    ELSE IF n % 1000000 = 0 THEN [digits |-> 3, value |-> n \div 1000000]
    ELSE IF n % 1000 = 0 THEN [digits |-> 6, value |-> n \div 1000]
    ELSE [digits |-> 9, value |-> n]

\* A well-formed RFC 3339 text: the local date-time in seconds, the written
\* fraction, and the zone, either "Z" or an offset in minutes.
Rfc3339(local, frac, zone, off) ==
    [wf |-> TRUE, local |-> local, frac |-> frac, zone |-> zone, off |-> off]
\* A text that is no RFC 3339 date-time.
Garbage == [wf |-> FALSE]

\* DateTime::to_rfc3339(): offset form "+00:00", AutoSi fraction.
to_rfc3339(dt) == Rfc3339(dt.secs, AutoSi(dt.nanos), "offset", 0)

\* The serde Serialize impl of DateTime<Utc>: "Z" form, AutoSi fraction.
SerializeDateTime(dt) == Rfc3339(dt.secs, AutoSi(dt.nanos), "Z", 0)

Pow10(n) == CASE n = 0 -> 1 [] n = 3 -> 1000 [] n = 6 -> 1000000
              [] n = 9 -> 1000000000 [] OTHER -> 1

\* DateTime::parse_from_rfc3339(s).ok().map(|dt| dt.with_timezone(&Utc))
parse_from_rfc3339(s) ==
    IF s.wf
    THEN Some(DateTime(s.local - 60 * s.off,
                       s.frac.value * Pow10(9 - s.frac.digits)))
    ELSE None

-----------------------------------------------------------------------------
(* JSON values, as serde_json reads and writes them *)

JNull == [t |-> "null"]
JStr(x) == [t |-> "string", v |-> x]
JNum(n) == [t |-> "number", n |-> n]
IsJStr(j) == "t" \in DOMAIN j /\ j.t = "string"

\* A text that is not JSON at all.
Malformed == [json |-> FALSE]
\* A JSON object: fields is a function from its keys to JSON values.
JObject(fields) == [json |-> TRUE, fields |-> fields]
IsJObject(j) == "fields" \in DOMAIN j

-----------------------------------------------------------------------------
(* shared::models::Item and its serde implementations *)

Item(i, n, d, c, k) ==
    [id |-> i, name |-> n, description |-> d, created_at |-> c,
     classification |-> k]

\* A default classification other than the one of the code.
default_classification_public == "PUBLIC"

\* fn default_classification()
default_classification == "INTERNAL"

\* Deserialize for Item (serde_json::from_str / from_slice).  uuid is what
\* generate_id() would return and now what default_created_at() would.
\* The result is Ok(item) or Err.
DeserializeItem(doc, uuid, now) ==
    IF ~doc.json THEN [ok |-> FALSE]
    ELSE
    LET f == doc.fields
        has(k) == k \in DOMAIN f
        str(k) == has(k) /\ IsJStr(f[k])
        idOk == ~has("id") \/ str("id")
        nameOk == str("name")
        descOk == ~has("description") \/ f["description"].t = "null"
                     \/ str("description")
        createdOk == ~has("created_at")
                     \/ (str("created_at")
                         /\ IsSome(parse_from_rfc3339(f["created_at"].v)))
        classOk == ~has("classification") \/ str("classification")
    IN  IF ~(idOk /\ nameOk /\ descOk /\ createdOk /\ classOk)
        THEN [ok |-> FALSE]
        ELSE [ok |-> TRUE,
              item |-> Item(
                IF has("id") THEN f["id"].v ELSE uuid,
                f["name"].v,
                IF str("description") THEN Some(f["description"].v) ELSE None,
                IF has("created_at")
                    THEN parse_from_rfc3339(f["created_at"].v).v ELSE now,
                IF has("classification") THEN f["classification"].v
                    ELSE default_classification)]

\* Serialize for Item (serde_json::to_string): every field of the value is
\* written, a None as null.  The repository builds Item values without a
\* classification; such a value has no classification to write.
SerializeItem(it) ==
    JObject([k \in DOMAIN it |->
        CASE k = "description" ->
                IF IsSome(it.description) THEN JStr(it.description.v) ELSE JNull
          [] k = "created_at" -> JStr(SerializeDateTime(it.created_at))
          [] OTHER -> JStr(it[k])])

\* Serialize for ItemEvent
SerializeItemEvent(ev) ==
    JObject([event_type |-> JStr(ev.event_type),
             item |-> SerializeItem(ev.item),
             timestamp |-> JStr(SerializeDateTime(ev.timestamp))])

ItemEvent(ty, it, ts) == [event_type |-> ty, item |-> it, timestamp |-> ts]

\* enum ItemEventType
ItemEventTypes == {"Created", "Updated", "Deleted"}

\* Serialize for ItemEventType: a unit variant is written as its name.
SerializeItemEventType(ty) == JStr(ty)

\* Deserialize for ItemEventType: a JSON string naming a variant.
DeserializeItemEventType(j) ==
    IF IsJStr(j) /\ j.v \in ItemEventTypes
    THEN [ok |-> TRUE, event_type |-> j.v]
    ELSE [ok |-> FALSE]

\* Deserialize for ItemEvent reading the item as if it were the event.
DeserializeItemEventFlat(doc, uuid, now) ==
    IF ~(IsJObject(doc) /\ DeserializeItem(doc, uuid, now).ok)
    THEN [ok |-> FALSE]
    ELSE [ok |-> TRUE,
          event |-> ItemEvent("Created", DeserializeItem(doc, uuid, now).item,
                              now)]

\* Deserialize for ItemEvent (serde_json::from_str): all three fields are
\* required; the item's own defaults apply inside it.
DeserializeItemEvent(doc, uuid, now) ==
    IF ~IsJObject(doc) THEN [ok |-> FALSE]
    ELSE
    LET f == doc.fields
        has(k) == k \in DOMAIN f
        typeOk == has("event_type") /\ DeserializeItemEventType(f["event_type"]).ok
        itemOk == /\ has("item") /\ IsJObject(f["item"])
                  /\ DeserializeItem(f["item"], uuid, now).ok
        timeOk == /\ has("timestamp") /\ IsJStr(f["timestamp"])
                  /\ IsSome(parse_from_rfc3339(f["timestamp"].v))
    IN  IF ~(typeOk /\ itemOk /\ timeOk)
        THEN [ok |-> FALSE]
        ELSE [ok |-> TRUE,
              event |-> ItemEvent(
                DeserializeItemEventType(f["event_type"]).event_type,
                DeserializeItem(f["item"], uuid, now).item,
                parse_from_rfc3339(f["timestamp"].v).v)]

-----------------------------------------------------------------------------
(* shared::error::AppError *)

AppError(kind, msg) == [kind |-> kind, msg |-> msg]

ErrorKinds ==
    {"DynamoDb", "Sqs", "Serialization", "Validation", "NotFound", "Internal"}

\* Display with the NotFound text written without its prefix.
DisplayBareNotFound(err) ==
    CASE err.kind = "DynamoDb" -> "DynamoDB error: " \o err.msg
      [] err.kind = "Sqs" -> "SQS error: " \o err.msg
      [] err.kind = "Serialization" -> "Serialization error: " \o err.msg
      [] err.kind = "Validation" -> "Validation error: " \o err.msg
      [] err.kind = "NotFound" -> err.msg
      [] err.kind = "Internal" -> "Internal error: " \o err.msg

\* The #[error("...")] attributes: what err.to_string() returns.
Display(err) ==
    CASE err.kind = "DynamoDb" -> "DynamoDB error: " \o err.msg
      [] err.kind = "Sqs" -> "SQS error: " \o err.msg
      [] err.kind = "Serialization" -> "Serialization error: " \o err.msg
      [] err.kind = "Validation" -> "Validation error: " \o err.msg
      [] err.kind = "NotFound" -> "Not found: " \o err.msg
      [] err.kind = "Internal" -> "Internal error: " \o err.msg

Ok(x) == [ok |-> TRUE, v |-> x]
Err(e) == [ok |-> FALSE, err |-> e]

-----------------------------------------------------------------------------
(* api-handler: validate_item, error_response and the error mapping *)

\* validate_item without its first rule, the check for an empty name.
validate_item_without_empty_rule(it) ==
    IF Utf8Len(it.name) > MaxNameLen
        THEN Err(AppError("Validation", "Item name too long (max 100 characters)"))
    ELSE IF Contains(it.name, LT) \/ Contains(it.name, GT) \/ Contains(it.name, AMP)
        THEN Err(AppError("Validation", "Item name contains invalid characters"))
    ELSE IF IsSome(it.description) /\ Utf8Len(it.description.v) > MaxDescLen
        THEN Err(AppError("Validation", "Description too long (max 1000 characters)"))
    ELSE IF IsSome(it.description)
            /\ (Contains(it.description.v, LT) \/ Contains(it.description.v, GT)
                \/ Contains(it.description.v, AMP))
        THEN Err(AppError("Validation", "Description contains invalid characters"))
    ELSE IF it.classification \notin {"PUBLIC", "INTERNAL", "CONFIDENTIAL", "RESTRICTED"}
        THEN Err(AppError("Validation", "Invalid classification level"))
    ELSE Ok("unit")

\* validate_item checking the classification before the description.
validate_item_classification_first(it) ==
    IF Len(it.name) = 0
        THEN Err(AppError("Validation", "Item name cannot be empty"))
    ELSE IF Utf8Len(it.name) > MaxNameLen
        THEN Err(AppError("Validation", "Item name too long (max 100 characters)"))
    ELSE IF Contains(it.name, LT) \/ Contains(it.name, GT) \/ Contains(it.name, AMP)
        THEN Err(AppError("Validation", "Item name contains invalid characters"))
    ELSE IF it.classification \notin {"PUBLIC", "INTERNAL", "CONFIDENTIAL", "RESTRICTED"}
        THEN Err(AppError("Validation", "Invalid classification level"))
    ELSE IF IsSome(it.description) /\ Utf8Len(it.description.v) > MaxDescLen
        THEN Err(AppError("Validation", "Description too long (max 1000 characters)"))
    ELSE IF IsSome(it.description)
            /\ (Contains(it.description.v, LT) \/ Contains(it.description.v, GT)
                \/ Contains(it.description.v, AMP))
        THEN Err(AppError("Validation", "Description contains invalid characters"))
    ELSE Ok("unit")

\* fn validate_item(item: &Item) -> Result<(), AppError>
validate_item(it) ==
    IF Len(it.name) = 0
        THEN Err(AppError("Validation", "Item name cannot be empty"))
    ELSE IF Utf8Len(it.name) > MaxNameLen
        THEN Err(AppError("Validation", "Item name too long (max 100 characters)"))
    ELSE IF Contains(it.name, LT) \/ Contains(it.name, GT) \/ Contains(it.name, AMP)
        THEN Err(AppError("Validation", "Item name contains invalid characters"))
    ELSE IF IsSome(it.description) /\ Utf8Len(it.description.v) > MaxDescLen
        THEN Err(AppError("Validation", "Description too long (max 1000 characters)"))
    ELSE IF IsSome(it.description)
            /\ (Contains(it.description.v, LT) \/ Contains(it.description.v, GT)
                \/ Contains(it.description.v, AMP))
        THEN Err(AppError("Validation", "Description contains invalid characters"))
    ELSE IF it.classification \notin {"PUBLIC", "INTERNAL", "CONFIDENTIAL", "RESTRICTED"}
        THEN Err(AppError("Validation", "Invalid classification level"))
    ELSE Ok("unit")

\* Body::Empty
BodyEmpty == [empty |-> TRUE]

\* An HTTP response; body is a JSON value, or BodyEmpty.
Response(status, contentType, body) ==
    [kind |-> "Response", status |-> status, content_type |-> contentType,
     body |-> body]
\* handle_request returned Err: the invocation failed, no response was built.
InvocationError(what) == [kind |-> "InvocationError", what |-> what]
NoResponse == [kind |-> "None"]

\* fn error_response(message, status_code): ErrorResponse { message } as JSON.
error_response(message, status_code) ==
    Response(status_code, "application/json",
             JObject([message |-> JStr(message)]))

\* The status mapping with Serialization answered as a client error.
status_code_serialization_400(err) ==
    CASE err.kind = "NotFound" -> 404
      [] err.kind = "Validation" -> 400
      [] err.kind = "Serialization" -> 400
      [] OTHER -> 500

\* The status code handle_request chooses for an Err of a handler.
status_code(err) ==
    CASE err.kind = "NotFound" -> 404
      [] err.kind = "Validation" -> 400
      [] OTHER -> 500

\* The last match of handle_request: a handler's Result becomes a response.
MapResult(result) ==
    IF result.ok THEN result.v
    ELSE error_response(Display(result.err), status_code(result.err))

\* format!("{:x}", md5::compute(text)): the digest of a text, kept as the
\* text it is the digest of.
Md5Hex(text) == [md5 |-> text]

\* create_audit_record giving every record a new_state.
create_audit_record_always_new_state(action, it, previous_state, request_id, event_id, now) ==
    [event_id |-> event_id,
     user_id |-> "system",
     action |-> action,
     resource_id |-> it.id,
     resource_type |-> "item",
     timestamp |-> now,
     previous_state |-> previous_state,
     new_state |-> Some(SerializeItem(it)),
     request_id |-> request_id,
     hash |-> Some(Md5Hex(SerializeItem(it)))]

\* fn create_audit_record(action, item, previous_state, request_id);
\* event_id is what Uuid::new_v4() returns and now what Utc::now() does.
create_audit_record(action, it, previous_state, request_id, event_id, now) ==
    [event_id |-> event_id,
     user_id |-> "system",
     action |-> action,
     resource_id |-> it.id,
     resource_type |-> "item",
     timestamp |-> now,
     previous_state |-> previous_state,
     new_state |-> IF action # "delete" THEN Some(SerializeItem(it)) ELSE None,
     request_id |-> request_id,
     hash |-> Some(Md5Hex(SerializeItem(it)))]

-----------------------------------------------------------------------------
(* The DynamoDB table as the repository uses it, and the repository *)

\* put_item that leaves the record of a key it already holds.
StorePutKeepsExisting(tbl, key, attrs) ==
    [k \in DOMAIN tbl \cup {key} |-> IF k \in DOMAIN tbl THEN tbl[k] ELSE attrs]

\* put_item: the record replaces whatever the key held.
StorePut(tbl, key, attrs) ==
    [k \in DOMAIN tbl \cup {key} |-> IF k = key THEN attrs ELSE tbl[k]]

\* get_item: response.item is the record, or None.
StoreGet(tbl, key) == IF key \in DOMAIN tbl THEN Some(tbl[key]) ELSE None

\* delete_item: the key is removed; a key that is absent is no error.
StoreDelete(tbl, key) == [k \in DOMAIN tbl \ {key} |-> tbl[k]]

\* DynamoDbRepository::create_item: the attribute map it puts.
ItemAttributes(it) ==
    LET keys == {"id", "name", "created_at"}
                 \cup (IF IsSome(it.description) THEN {"description"} ELSE {})
    IN  [k \in keys |->
            CASE k = "id" -> it.id
              [] k = "name" -> it.name
              [] k = "description" -> it.description.v
              [] k = "created_at" -> to_rfc3339(it.created_at)]

\* DynamoDbRepository::get_item, the conversion of a found record: the Item
\* it builds has the fields id, name, description and created_at.
ItemFromAttributes(attrs, now) ==
    [id |-> IF "id" \in DOMAIN attrs THEN attrs["id"] ELSE "",
     name |-> IF "name" \in DOMAIN attrs THEN attrs["name"] ELSE <<>>,
     description |-> IF "description" \in DOMAIN attrs
                        THEN Some(attrs["description"]) ELSE None,
     created_at |-> IF "created_at" \in DOMAIN attrs
                        /\ IsSome(parse_from_rfc3339(attrs["created_at"]))
                    THEN parse_from_rfc3339(attrs["created_at"]).v
                    ELSE now]

\* get_item finding only the records that list_items returns.
repo_get_item_complete_only(tbl, key, now) ==
    IF IsSome(StoreGet(tbl, key)) /\ {"id", "name"} \subseteq DOMAIN StoreGet(tbl, key).v
    THEN Some(ItemFromAttributes(StoreGet(tbl, key).v, now))
    ELSE None

\* DynamoDbRepository::get_item on an available store: Option<Item>.
repo_get_item(tbl, key, now) ==
    IF IsSome(StoreGet(tbl, key))
    THEN Some(ItemFromAttributes(StoreGet(tbl, key).v, now))
    ELSE None

\* DynamoDbRepository::create_item on an available store: its result and
\* the table after it.
repo_create_item(tbl, it) ==
    [result |-> Ok("unit"), table |-> StorePut(tbl, it.id, ItemAttributes(it))]

\* delete_item as a conditional delete, which fails on an absent key.
repo_delete_item_if_exists(tbl, key) ==
    IF key \in DOMAIN tbl
    THEN [result |-> Ok("unit"), table |-> StoreDelete(tbl, key)]
    ELSE [result |-> Err(AppError("DynamoDb", "ConditionalCheckFailedException")),
          table |-> tbl]

\* DynamoDbRepository::delete_item on an available store: its result and
\* the table after it.
repo_delete_item(tbl, key) ==
    [result |-> Ok("unit"), table |-> StoreDelete(tbl, key)]

\* list_items returning only the records that have a description.
repo_list_items_described(tbl, now) ==
    {ItemFromAttributes(tbl[k], now) :
        k \in {x \in DOMAIN tbl : {"id", "name", "description"} \subseteq DOMAIN tbl[x]}}

\* DynamoDbRepository::list_items on an available store: the items of the
\* records that have an id and a name, as a set (the scan fixes no order).
repo_list_items(tbl, now) ==
    {ItemFromAttributes(tbl[k], now) :
        k \in {x \in DOMAIN tbl : {"id", "name"} \subseteq DOMAIN tbl[x]}}

\* The error a failed store call becomes (From<aws_sdk_dynamodb::Error>).
StoreError == AppError("DynamoDb", "service error")
\* The error a failed send_message becomes (map_err to AppError::Sqs).
PublishError == AppError("Sqs", "service error")

-----------------------------------------------------------------------------
(* Inputs *)

Invocations == {1, 2}
\* The api-handler instance of the sequential specification.
Sequential == {1}

EmptyTable == [k \in {} |-> None]

\* The ids Uuid::new_v4() may return.
Uuids == {"uuid-1", "uuid-2"}

NameWidget == <<87, 105, 100, 103, 101, 116>>
NameMax == Repeat(97, MaxNameLen)
NameOver == Repeat(97, MaxNameLen + 1)
\* MaxNameLen two-byte characters
NameWide == Repeat(233, MaxNameLen)
Names ==
    {<<>>, NameWidget, NameMax, NameOver, NameWide, <<97, LT>>, <<GT, 97>>,
     <<97, AMP, 98>>}

DescOk == <<100, 101, 115, 99>>
Descs == {DescOk, Repeat(100, MaxDescLen), Repeat(100, MaxDescLen + 1),
          <<100, LT>>, <<GT>>, <<AMP, 100>>}

Classifications ==
    {"PUBLIC", "INTERNAL", "CONFIDENTIAL", "RESTRICTED", "SECRET"}

\* A created_at text with a fraction and an offset of +01:00.
SuppliedCreatedAt == Rfc3339(4600, [digits |-> 3, value |-> 250], "offset", 60)

Fields1(k1, v1) == [k \in {k1} |-> v1]
Fields2(k1, v1, k2, v2) == [k \in {k1, k2} |-> IF k = k1 THEN v1 ELSE v2]
FullFields(n, d, c) ==
    [id |-> JStr("x"), name |-> JStr(n), description |-> d,
     created_at |-> JStr(SuppliedCreatedAt), classification |-> JStr(c)]

\* The JSON documents of the POST bodies.
Documents ==
    {Malformed, JObject(EmptyTable), JObject(Fields1("name", JNum(5))),
     JObject(Fields2("name", JStr(NameWidget), "created_at", JStr(Garbage))),
     JObject(Fields2("name", JStr(NameWidget), "description", JNull)),
     JObject(Fields2("id", JStr("x"), "name", JStr(NameWidget)))}
    \cup {JObject(Fields1("name", JStr(n))) : n \in Names}
    \cup {JObject(FullFields(NameWidget, JStr(d), "INTERNAL")) :
            d \in {DescOk, <<100, LT>>}}
    \cup {JObject(FullFields(NameWidget, JStr(DescOk), c)) : c \in {"PUBLIC", "SECRET"}}

Bodies ==
    {[kind |-> "Empty"]}
    \cup {[kind |-> "Text", doc |-> d] : d \in Documents}
    \cup {[kind |-> "Binary", doc |-> d] :
            d \in {Malformed, JObject(Fields1("name", JStr(NameWidget)))}}

Request(m, p, b) == [method |-> m, path |-> p, body |-> b]

Requests ==
    {Request("POST", "/items", b) : b \in Bodies}
    \cup {Request(m, p, [kind |-> "Empty"]) :
            m \in {"GET", "DELETE"},
            p \in {"/items/x", "/items/missing-id", "/items/uuid-1",
                   "/items//items/x", "/items/"}}
    \cup {Request(m, p, [kind |-> "Empty"]) :
            m \in {"GET", "DELETE", "PUT"}, p \in {"/items", "/other"}}
    \cup {Request("POST", "/items/x",
                  [kind |-> "Text", doc |-> JObject(Fields1("name", JStr(NameWidget)))])}

-----------------------------------------------------------------------------
(* api-handler: handle_request *)

\* str::starts_with
starts_with(s, prefix) ==
    Len(s) >= Len(prefix) /\ SubSeq(s, 1, Len(prefix)) = prefix

\* str::trim_start_matches: the prefix is removed as often as it occurs.
RECURSIVE trim_start_matches(_, _)
trim_start_matches(s, prefix) ==
    IF starts_with(s, prefix)
    THEN trim_start_matches(SubSeq(s, Len(prefix) + 1, Len(s)), prefix)
    ELSE s

\* Whether handling r calls generate_id().
NeedsUuid(r) ==
    /\ r.method = "POST" /\ r.path = "/items"
    /\ r.body.kind # "Empty"
    /\ r.body.doc.json
    /\ "id" \notin DOMAIN r.body.doc.fields

Suspended(at, it, key) ==
    [pc |-> at, item |-> it, id |-> key, resp |-> NoResponse]
Returned(r) == [pc |-> "done", item |-> None, id |-> "", resp |-> r]

\* handle_request with a last arm that lists the items instead of
\* answering 404.
RouteFallbackLists(r, uuid, now) ==
    IF r.method = "GET" /\ r.path = "/items"
        THEN Suspended("list_scan", None, "")
    ELSE IF r.method = "GET" /\ starts_with(r.path, "/items/")
        THEN Suspended("get_get", None, trim_start_matches(r.path, "/items/"))
    ELSE IF r.method = "POST" /\ r.path = "/items"
        THEN IF r.body.kind = "Empty"
             THEN Returned(error_response("Invalid request body", 400))
             ELSE LET parsed == DeserializeItem(r.body.doc, uuid, now)
                  IN  IF ~parsed.ok
                      THEN Returned(InvocationError("serde_json::Error"))
                      ELSE LET valid == validate_item(parsed.item)
                           IN  IF valid.ok
                               THEN Suspended("create_put", Some(parsed.item), "")
                               ELSE Returned(MapResult(valid))
    ELSE IF r.method = "DELETE" /\ starts_with(r.path, "/items/")
        THEN Suspended("delete_get", None, trim_start_matches(r.path, "/items/"))
    ELSE Suspended("list_scan", None, "")

\* handle_request from its entry to the first await of the routed handler,
\* or to its return when it returns before any await.
Route(r, uuid, now) ==
    IF r.method = "GET" /\ r.path = "/items"
        THEN Suspended("list_scan", None, "")
    ELSE IF r.method = "GET" /\ starts_with(r.path, "/items/")
        THEN Suspended("get_get", None, trim_start_matches(r.path, "/items/"))
    ELSE IF r.method = "POST" /\ r.path = "/items"
        THEN IF r.body.kind = "Empty"
             THEN Returned(error_response("Invalid request body", 400))
             ELSE LET parsed == DeserializeItem(r.body.doc, uuid, now)
                  IN  IF ~parsed.ok
                      THEN Returned(InvocationError("serde_json::Error"))
                      ELSE LET valid == validate_item(parsed.item)
                           IN  IF valid.ok
                               THEN Suspended("create_put", Some(parsed.item), "")
                               ELSE Returned(MapResult(valid))
    ELSE IF r.method = "DELETE" /\ starts_with(r.path, "/items/")
        THEN Suspended("delete_get", None, trim_start_matches(r.path, "/items/"))
    ELSE Returned(MapResult(Ok(error_response("Not found", 404))))

-----------------------------------------------------------------------------
(* The state machine of one handler invocation *)

Put(key, ok) == [op |-> "put", key |-> key, ok |-> ok]
Get(key, ok) == [op |-> "get", key |-> key, ok |-> ok]
Scan(ok) == [op |-> "scan", ok |-> ok]
Delete(key, ok) == [op |-> "delete", key |-> key, ok |-> ok]
Send(ty, key, ok) == [op |-> "send", event_type |-> ty, key |-> key, ok |-> ok]

\* The handler of invocation i returns result: handle_request maps it.
Finish(i, result) ==
    /\ pc' = [pc EXCEPT ![i] = "done"]
    /\ resp' = [resp EXCEPT ![i] = MapResult(result)]

Log(i, e) == effects' = [effects EXCEPT ![i] = Append(@, e)]

\* All orders in which a scan may return the items of S.
Orderings(S) ==
    {q \in [1..Cardinality(S) -> S] : \A a, b \in DOMAIN q : a # b => q[a] # q[b]}

\* A request arrives at an idle instance; handle_request runs to its first
\* await, or returns.
Receive(i) ==
    /\ pc[i] = "idle"
    /\ served < MaxRequests
    /\ \E r \in Requests :
        \E uuid \in IF NeedsUuid(r) THEN Uuids \ DOMAIN table ELSE {"unused"} :
            LET out == Route(r, uuid, Now(clock))
            IN  /\ pc' = [pc EXCEPT ![i] = out.pc]
                /\ item' = [item EXCEPT ![i] = out.item]
                /\ id' = [id EXCEPT ![i] = out.id]
                /\ resp' = [resp EXCEPT ![i] = out.resp]
                /\ req' = [req EXCEPT ![i] = Some(r)]
    /\ table0' = [table0 EXCEPT ![i] = table]
    /\ queue0' = [queue0 EXCEPT ![i] = queue]
    /\ served' = served + 1
    /\ UNCHANGED <<table, queue, clock, effects, calls, probe, audit, evVars>>

\* The AuditRecord of invocation i is built.
Audited(i, action, it, previous_state) ==
    \E event_id \in Uuids :
        audit' = [audit EXCEPT ![i] =
            Some(create_audit_record(action, it, previous_state, "request-id",
                                     event_id, Now(clock)))]

\* create_item building its audit record whether or not the write succeeded.
CreatePutAuditsFirst(i) ==
    /\ pc[i] = "create_put"
    /\ Audited(i, "create", item[i].v, None)
    /\ \/ LET r == repo_create_item(table, item[i].v)
          IN  /\ table' = r.table
              /\ Log(i, Put(item[i].v.id, r.result.ok))
              /\ IF r.result.ok
                 THEN pc' = [pc EXCEPT ![i] = "create_send"] /\ UNCHANGED resp
                 ELSE Finish(i, r.result)
       \/ /\ Log(i, Put(item[i].v.id, FALSE))
          /\ Finish(i, Err(StoreError))
          /\ UNCHANGED table
    /\ UNCHANGED <<queue, clock, req, item, id, table0, queue0, served, calls,
                   probe, evVars>>

\* create_item going on to publish although the store write failed.
CreatePutIgnoresFailure(i) ==
    /\ pc[i] = "create_put"
    /\ \/ LET r == repo_create_item(table, item[i].v)
          IN  /\ table' = r.table
              /\ Log(i, Put(item[i].v.id, r.result.ok))
       \/ /\ Log(i, Put(item[i].v.id, FALSE))
          /\ UNCHANGED table
    /\ pc' = [pc EXCEPT ![i] = "create_send"]
    /\ Audited(i, "create", item[i].v, None)
    /\ UNCHANGED <<queue, clock, req, item, id, resp, table0, queue0, served,
                   calls, probe, evVars>>

\* create_item: repo.create_item(&item).await? and, the write done, the
\* audit record.
CreatePut(i) ==
    /\ pc[i] = "create_put"
    /\ \/ LET r == repo_create_item(table, item[i].v)
          IN  /\ table' = r.table
              /\ Log(i, Put(item[i].v.id, r.result.ok))
              /\ IF r.result.ok
                 THEN /\ pc' = [pc EXCEPT ![i] = "create_send"]
                      /\ Audited(i, "create", item[i].v, None)
                      /\ UNCHANGED resp
                 ELSE Finish(i, r.result) /\ UNCHANGED audit
       \/ /\ Log(i, Put(item[i].v.id, FALSE))
          /\ Finish(i, Err(StoreError))
          /\ UNCHANGED <<table, audit>>
    /\ UNCHANGED <<queue, clock, req, item, id, table0, queue0, served, calls,
                   probe, evVars>>

\* create_item answering 201 without having sent the event.
CreateSendDropped(i) ==
    /\ pc[i] = "create_send"
    /\ Finish(i, Ok(Response(201, "application/json", SerializeItem(item[i].v))))
    /\ UNCHANGED <<table, queue, clock, req, item, id, effects, table0, queue0,
                   served, calls, probe, audit, evVars>>

\* create_item undoing its store write when the publish fails.
CreateSendRollback(i) ==
    /\ pc[i] = "create_send"
    /\ LET msg == SerializeItemEvent(ItemEvent("Created", item[i].v, Now(clock)))
       IN  \/ /\ queue' = Append(queue, msg)
              /\ Log(i, Send("Created", item[i].v.id, TRUE))
              /\ Finish(i, Ok(Response(201, "application/json",
                                       SerializeItem(item[i].v))))
              /\ UNCHANGED table
           \/ /\ Log(i, Send("Created", item[i].v.id, FALSE))
              /\ Finish(i, Err(PublishError))
              /\ table' = StoreDelete(table, item[i].v.id)
              /\ UNCHANGED queue
    /\ UNCHANGED <<clock, req, item, id, table0, queue0, served, calls,
                   probe, audit, evVars>>

\* create_item: the event is built and serialised, send_message is awaited,
\* the 201 response is built.
CreateSend(i) ==
    /\ pc[i] = "create_send"
    /\ LET msg == SerializeItemEvent(ItemEvent("Created", item[i].v, Now(clock)))
       IN  \/ /\ queue' = Append(queue, msg)
              /\ Log(i, Send("Created", item[i].v.id, TRUE))
              /\ Finish(i, Ok(Response(201, "application/json",
                                       SerializeItem(item[i].v))))
           \/ /\ Log(i, Send("Created", item[i].v.id, FALSE))
              /\ Finish(i, Err(PublishError))
              /\ UNCHANGED queue
    /\ UNCHANGED <<table, clock, req, item, id, table0, queue0, served,
                   calls, probe, audit, evVars>>

\* delete_item deleting the key before it answers 404 for an item not found.
DeleteGetDeletesUnfound(i) ==
    /\ pc[i] = "delete_get"
    /\ \/ LET got == repo_get_item(table, id[i], Now(clock))
          IN  IF IsSome(got)
              THEN /\ Log(i, Get(id[i], TRUE))
                   /\ item' = [item EXCEPT ![i] = got]
                   /\ pc' = [pc EXCEPT ![i] = "delete_del"]
                   /\ Audited(i, "delete", got.v, Some(SerializeItem(got.v)))
                   /\ UNCHANGED resp
              ELSE /\ effects' = [effects EXCEPT ![i] =
                                    @ \o <<Get(id[i], TRUE), Delete(id[i], TRUE)>>]
                   /\ Finish(i, Err(AppError("NotFound",
                            "Item with ID " \o id[i] \o " not found")))
                   /\ UNCHANGED <<item, audit>>
       \/ /\ Log(i, Get(id[i], FALSE))
          /\ Finish(i, Err(StoreError))
          /\ UNCHANGED <<item, audit>>
    /\ UNCHANGED <<table, queue, clock, req, id, table0, queue0, served, calls,
                   probe, evVars>>

\* delete_item: repo.get_item(id).await?, the match on its result and, the
\* item found, the audit record with its previous state.
DeleteGet(i) ==
    /\ pc[i] = "delete_get"
    /\ \/ LET got == repo_get_item(table, id[i], Now(clock))
          IN  /\ Log(i, Get(id[i], TRUE))
              /\ IF IsSome(got)
                 THEN /\ item' = [item EXCEPT ![i] = got]
                      /\ pc' = [pc EXCEPT ![i] = "delete_del"]
                      /\ Audited(i, "delete", got.v, Some(SerializeItem(got.v)))
                      /\ UNCHANGED resp
                 ELSE /\ Finish(i, Err(AppError("NotFound",
                            "Item with ID " \o id[i] \o " not found")))
                      /\ UNCHANGED <<item, audit>>
       \/ /\ Log(i, Get(id[i], FALSE))
          /\ Finish(i, Err(StoreError))
          /\ UNCHANGED <<item, audit>>
    /\ UNCHANGED <<table, queue, clock, req, id, table0, queue0, served, calls,
                   probe, evVars>>

\* delete_item going on to publish although the delete failed.
DeleteDelIgnoresFailure(i) ==
    /\ pc[i] = "delete_del"
    /\ \/ LET r == repo_delete_item(table, id[i])
          IN  /\ table' = r.table
              /\ Log(i, Delete(id[i], r.result.ok))
       \/ /\ Log(i, Delete(id[i], FALSE))
          /\ UNCHANGED table
    /\ pc' = [pc EXCEPT ![i] = "delete_send"]
    /\ UNCHANGED <<queue, clock, req, item, id, resp, table0, queue0, served,
                   calls, probe, audit, evVars>>

\* delete_item: repo.delete_item(id).await?
DeleteDel(i) ==
    /\ pc[i] = "delete_del"
    /\ \/ LET r == repo_delete_item(table, id[i])
          IN  /\ table' = r.table
              /\ Log(i, Delete(id[i], r.result.ok))
              /\ IF r.result.ok
                 THEN pc' = [pc EXCEPT ![i] = "delete_send"] /\ UNCHANGED resp
                 ELSE Finish(i, r.result)
       \/ /\ Log(i, Delete(id[i], FALSE))
          /\ Finish(i, Err(StoreError))
          /\ UNCHANGED table
    /\ UNCHANGED <<queue, clock, req, item, id, table0, queue0, served,
                   calls, probe, audit, evVars>>

\* delete_item: the event is built and serialised, send_message is awaited,
\* the 204 response is built.
DeleteSend(i) ==
    /\ pc[i] = "delete_send"
    /\ LET msg == SerializeItemEvent(ItemEvent("Deleted", item[i].v, Now(clock)))
       IN  \/ /\ queue' = Append(queue, msg)
              /\ Log(i, Send("Deleted", item[i].v.id, TRUE))
              /\ Finish(i, Ok(Response(204, "none", BodyEmpty)))
           \/ /\ Log(i, Send("Deleted", item[i].v.id, FALSE))
              /\ Finish(i, Err(PublishError))
              /\ UNCHANGED queue
    /\ UNCHANGED <<table, clock, req, item, id, table0, queue0, served,
                   calls, probe, audit, evVars>>

\* get_item answering a missing key as it answers a failed store call.
GetGetMissingIsError(i) ==
    /\ pc[i] = "get_get"
    /\ \/ LET got == repo_get_item(table, id[i], Now(clock))
          IN  /\ Log(i, Get(id[i], TRUE))
              /\ IF IsSome(got)
                 THEN Finish(i, Ok(Response(200, "application/json",
                                            SerializeItem(got.v))))
                 ELSE Finish(i, Err(StoreError))
       \/ /\ Log(i, Get(id[i], FALSE))
          /\ Finish(i, Err(StoreError))
    /\ UNCHANGED <<table, queue, clock, req, item, id, table0, queue0, served,
                   calls, probe, audit, evVars>>

\* get_item: repo.get_item(id).await? and the match on its result.
GetGet(i) ==
    /\ pc[i] = "get_get"
    /\ \/ LET got == repo_get_item(table, id[i], Now(clock))
          IN  /\ Log(i, Get(id[i], TRUE))
              /\ IF IsSome(got)
                 THEN Finish(i, Ok(Response(200, "application/json",
                                            SerializeItem(got.v))))
                 ELSE Finish(i, Err(AppError("NotFound",
                            "Item with ID " \o id[i] \o " not found")))
       \/ /\ Log(i, Get(id[i], FALSE))
          /\ Finish(i, Err(StoreError))
    /\ UNCHANGED <<table, queue, clock, req, item, id, table0, queue0, served,
                   calls, probe, audit, evVars>>

\* get_items: repo.list_items().await? and the 200 response.
ListScan(i) ==
    /\ pc[i] = "list_scan"
    /\ \/ /\ Log(i, Scan(TRUE))
          /\ \E q \in Orderings(repo_list_items(table, Now(clock))) :
                Finish(i, Ok(Response(200, "application/json",
                    [json |-> TRUE,
                     array |-> [k \in DOMAIN q |-> SerializeItem(q[k])]])))
       \/ /\ Log(i, Scan(FALSE))
          /\ Finish(i, Err(StoreError))
    /\ UNCHANGED <<table, queue, clock, req, item, id, table0, queue0, served,
                   calls, probe, audit, evVars>>

\* The response (or the failure) has been handed to the runtime; the
\* instance is idle again.
Return(i) ==
    /\ pc[i] = "done"
    /\ pc' = [pc EXCEPT ![i] = "idle"]
    /\ req' = [req EXCEPT ![i] = None]
    /\ item' = [item EXCEPT ![i] = None]
    /\ id' = [id EXCEPT ![i] = ""]
    /\ resp' = [resp EXCEPT ![i] = NoResponse]
    /\ effects' = [effects EXCEPT ![i] = <<>>]
    /\ table0' = [table0 EXCEPT ![i] = EmptyTable]
    /\ queue0' = [queue0 EXCEPT ![i] = <<>>]
    /\ audit' = [audit EXCEPT ![i] = None]
    /\ UNCHANGED <<table, queue, clock, served, calls, probe, evVars>>

\* Time passes.
Tick ==
    /\ clock < MaxClock
    /\ clock' = clock + 1
    /\ UNCHANGED <<table, queue, pc, req, item, id, resp, effects, table0,
                   queue0, served, calls, probe, audit, evVars>>

Init ==
    /\ table = EmptyTable
    /\ queue = <<>>
    /\ clock = 0
    /\ pc = [i \in Invocations |-> "idle"]
    /\ req = [i \in Invocations |-> None]
    /\ item = [i \in Invocations |-> None]
    /\ id = [i \in Invocations |-> ""]
    /\ resp = [i \in Invocations |-> NoResponse]
    /\ effects = [i \in Invocations |-> <<>>]
    /\ table0 = [i \in Invocations |-> EmptyTable]
    /\ queue0 = [i \in Invocations |-> <<>>]
    /\ served = 0
    /\ calls = <<>>
    /\ probe = None
    /\ audit = [i \in Invocations |-> None]
    /\ cpc = "idle"
    /\ records = <<>>
    /\ cursor = 0
    /\ handled = <<>>
    /\ outcome = None

Step(i) ==
    \/ Receive(i)
    \/ CreatePut(i)
    \/ CreateSend(i)
    \/ DeleteGet(i)
    \/ DeleteDel(i)
    \/ DeleteSend(i)
    \/ GetGet(i)
    \/ ListScan(i)
    \/ Return(i)

Next == (\E i \in Sequential : Step(i)) \/ Tick

\* One api-handler instance serving one request at a time.
Spec == Init /\ [][Next]_vars

-----------------------------------------------------------------------------
(* An invocation that is terminated while its handler is suspended *)

AwaitPoints ==
    {"create_put", "create_send", "delete_get", "delete_del", "delete_send",
     "get_get", "list_scan"}

\* What the runtime reports for an invocation it ended.
Terminated == InvocationError("terminated")

\* A termination that undoes the store write the handler had made.
TerminateCompensating(i) ==
    /\ pc[i] \in AwaitPoints
    /\ pc' = [pc EXCEPT ![i] = "done"]
    /\ resp' = [resp EXCEPT ![i] = Terminated]
    /\ table' = table0[i]
    /\ UNCHANGED <<queue, clock, req, item, id, effects, table0, queue0, served,
                   calls, probe, audit, evVars>>

\* The runtime ends invocation i at the await point it is suspended at: the
\* future of handle_request is dropped, the call it awaited does not take
\* effect, and no code of the handler runs any more.
Terminate(i) ==
    /\ pc[i] \in AwaitPoints
    /\ pc' = [pc EXCEPT ![i] = "done"]
    /\ resp' = [resp EXCEPT ![i] = Terminated]
    /\ UNCHANGED <<table, queue, clock, req, item, id, effects, table0, queue0,
                   served, calls, probe, audit, evVars>>

NextTerminate == Next \/ (\E i \in Sequential : Terminate(i))

\* One api-handler instance whose invocations may be terminated.
SpecTerminate == Init /\ [][NextTerminate]_vars

-----------------------------------------------------------------------------
(* Two api-handler instances serving requests at the same time *)

\* The requests that concurrent instances are sent: the creation of the
\* item "x", a creation that validation rejects, the deletion and the
\* lookup of "x", and the deletion of an id that is never stored.
ConcurrentRequests ==
    {Request("POST", "/items",
             [kind |-> "Text",
              doc |-> JObject(FullFields(NameWidget, JStr(DescOk), c))]) :
        c \in {"PUBLIC", "SECRET"}}
    \cup {Request("DELETE", p, [kind |-> "Empty"]) :
            p \in {"/items/x", "/items/missing-id"}}
    \cup {Request("GET", "/items/x", [kind |-> "Empty"])}

\* handle_request starts in instance i on one of these requests.
ReceiveConcurrent(i) ==
    /\ pc[i] = "idle"
    /\ served < MaxConcurrentRequests
    /\ \E r \in ConcurrentRequests :
        LET out == Route(r, "unused", Now(clock))
        IN  /\ pc' = [pc EXCEPT ![i] = out.pc]
            /\ item' = [item EXCEPT ![i] = out.item]
            /\ id' = [id EXCEPT ![i] = out.id]
            /\ resp' = [resp EXCEPT ![i] = out.resp]
            /\ req' = [req EXCEPT ![i] = Some(r)]
    /\ table0' = [table0 EXCEPT ![i] = table]
    /\ queue0' = [queue0 EXCEPT ![i] = queue]
    /\ served' = served + 1
    /\ UNCHANGED <<table, queue, clock, effects, calls, probe, audit, evVars>>

StepConcurrent(i) ==
    \/ ReceiveConcurrent(i)
    \/ CreatePut(i)
    \/ CreateSend(i)
    \/ DeleteGet(i)
    \/ DeleteDel(i)
    \/ DeleteSend(i)
    \/ GetGet(i)
    \/ Return(i)

NextConcurrent == (\E i \in Invocations : StepConcurrent(i)) \/ Tick

\* Two instances of the api-handler, their awaits interleaved in any order.
SpecConcurrent == Init /\ [][NextConcurrent]_vars

-----------------------------------------------------------------------------
(* The repository called directly, as the tests' mock repository is *)

RepoIds == {"x", "y"}

\* Items as a caller may pass them to create_item.
RepoItems ==
    {Item(i, NameWidget, Some(DescOk), DateTime(1000, 250000000), "PUBLIC") :
        i \in RepoIds}
    \cup {Item(i, NameWidget, None, DateTime(1000, 7), "INTERNAL") : i \in RepoIds}
    \cup {Item("x", NameMax, None, DateTime(2000, 0), "RESTRICTED")}

Called(c) ==
    /\ Len(calls) < MaxCalls
    /\ calls' = Append(calls, c)
    /\ UNCHANGED <<queue, clock, pc, req, item, id, resp, effects, table0,
                   queue0, served, probe, audit, evVars>>

\* repo.create_item(&it).await on a store that answers or fails
CallCreate ==
    \E it \in RepoItems :
        \/ LET r == repo_create_item(table, it)
           IN  /\ table' = r.table
               /\ Called([op |-> "create", item |-> it, avail |-> TRUE,
                          result |-> r.result])
        \/ /\ UNCHANGED table
           /\ Called([op |-> "create", item |-> it, avail |-> FALSE,
                      result |-> Err(StoreError)])

\* repo.get_item(key).await
CallGet ==
    \E key \in RepoIds :
        /\ UNCHANGED table
        /\ \/ Called([op |-> "get", key |-> key, avail |-> TRUE,
                      result |-> Ok(repo_get_item(table, key, Now(clock)))])
           \/ Called([op |-> "get", key |-> key, avail |-> FALSE,
                      result |-> Err(StoreError)])

\* repo.list_items().await
CallList ==
    /\ UNCHANGED table
    /\ \/ Called([op |-> "list", avail |-> TRUE,
                  result |-> Ok(repo_list_items(table, Now(clock)))])
       \/ Called([op |-> "list", avail |-> FALSE, result |-> Err(StoreError)])

\* repo.delete_item(key).await
CallDelete ==
    \E key \in RepoIds :
        \/ LET r == repo_delete_item(table, key)
           IN  /\ table' = r.table
               /\ Called([op |-> "delete", key |-> key, avail |-> TRUE,
                          existed |-> key \in DOMAIN table, result |-> r.result])
        \/ /\ UNCHANGED table
           /\ Called([op |-> "delete", key |-> key, avail |-> FALSE,
                      existed |-> key \in DOMAIN table,
                      result |-> Err(StoreError)])

NextRepo == CallCreate \/ CallGet \/ CallList \/ CallDelete

\* The repository under any sequence of direct calls.
SpecRepo == Init /\ [][NextRepo]_vars

-----------------------------------------------------------------------------
(* The pure functions applied to their inputs *)

ValidateItems ==
    {Item("x", n, d, Now(0), k) :
        n \in Names, d \in {None} \cup {Some(x) : x \in Descs},
        k \in Classifications}

ErrorMessages ==
    {"service error", "Item name cannot be empty", "Item with ID x not found",
     "expected value at line 1 column 1", ""}

Errors == {AppError(k, m) : k \in ErrorKinds, m \in ErrorMessages}

\* One function is applied to one input.
Probed(fn, arg, out) ==
    /\ probe = None
    /\ probe' = Some([fn |-> fn, arg |-> arg, out |-> out])
    /\ UNCHANGED <<table, queue, clock, pc, req, item, id, resp, effects,
                   table0, queue0, served, calls, audit, evVars>>

ProbeValidate == \E it \in ValidateItems : Probed("validate_item", it, validate_item(it))

\* A handler returned Err(e): what handle_request answers.
ProbeMapResult == \E e \in Errors : Probed("handle_request", e, MapResult(Err(e)))

\* Item values: as the struct declares them, and as the repository builds
\* them.
RoundTripItems ==
    {Item(i, n, d, c, k) :
        i \in {"x", ""}, n \in {NameWidget, NameWide, <<>>},
        d \in {None, Some(DescOk), Some(<<>>)},
        c \in {Now(0), Now(1), Now(2), Now(3), DateTime(4540, 250000000)},
        k \in {"INTERNAL", "SECRET"}}
    \cup {ItemFromAttributes(ItemAttributes(it), Now(0)) : it \in RepoItems}

RoundTripEvents ==
    {ItemEvent(ty, it, ts) :
        ty \in ItemEventTypes, it \in RoundTripItems, ts \in {Now(0), Now(3)}}

\* serde_json::from_str(&serde_json::to_string(&x).unwrap()) for an Item,
\* an ItemEventType and an ItemEvent.
ProbeItem ==
    \E it \in RoundTripItems : \E uuid \in Uuids :
        Probed("Item", it, DeserializeItem(SerializeItem(it), uuid, Now(1)))

ProbeItemEventType ==
    \E ty \in ItemEventTypes :
        Probed("ItemEventType", ty,
               DeserializeItemEventType(SerializeItemEventType(ty)))

ProbeItemEvent ==
    \E ev \in RoundTripEvents : \E uuid \in Uuids :
        Probed("ItemEvent", ev,
               DeserializeItemEvent(SerializeItemEvent(ev), uuid, Now(1)))

\* The actions an audit record is built for, and texts that are not quite
\* "delete".
AuditActions == {"create", "update", "delete", "DELETE", ""}

AuditItems ==
    RepoItems \cup {ItemFromAttributes(ItemAttributes(it), Now(0)) : it \in RepoItems}

ProbeAudit ==
    \E action \in AuditActions, it \in AuditItems, event_id \in Uuids :
        \E previous_state \in {None, Some(SerializeItem(it))} :
            Probed("create_audit_record",
                   [action |-> action, item |-> it,
                    previous_state |-> previous_state],
                   create_audit_record(action, it, previous_state, "request-id",
                                       event_id, Now(1)))

\* Records as get_item and scan may return them for the key k: with or
\* without each of the attributes the repository reads.
RecordsOf(k) ==
    {[a \in present |->
        CASE a = "id" -> k
          [] a = "name" -> NameWidget
          [] a = "description" -> DescOk
          [] a = "created_at" -> to_rfc3339(DateTime(1000, 7))] :
        present \in SUBSET {"id", "name", "description", "created_at"}}

\* Tables of one or two such records.
RecordTables ==
    UNION {{[k \in keys |-> IF k = "x" THEN rx ELSE ry] :
                rx \in RecordsOf("x"), ry \in RecordsOf("y")} :
           keys \in SUBSET RepoIds \ {{}}}

\* list_items() and get_item(key) on a table, the store answering.
ProbeRecords ==
    \E tbl \in RecordTables, key \in RepoIds :
        Probed("repository", [table |-> tbl, key |-> key],
               [list |-> Ok(repo_list_items(tbl, Now(1))),
                get |-> Ok(repo_get_item(tbl, key, Now(1)))])

NextPure ==
    \/ ProbeRecords
    \/ ProbeAudit
    \/ ProbeValidate
    \/ ProbeMapResult
    \/ ProbeItem
    \/ ProbeItemEventType
    \/ ProbeItemEvent

SpecPure == Init /\ [][NextPure]_vars

-----------------------------------------------------------------------------
(* event-processor: handle_event and process_sqs_message *)

\* aws_lambda_events::sqs::SqsMessage, of which the code reads the body.
SqsMessage(body) == [body |-> body]

\* The error of a failed serde_json::from_str, boxed by `?`.
SerdeError == [kind |-> "serde_json", msg |-> "invalid ItemEvent"]
\* The error process_sqs_message makes of a message without body.
NoBodyError == AppError("Internal", "SQS message has no body")

\* process_sqs_message that makes an event of a body it cannot read.
process_sqs_message_recovering(message, uuid, now) ==
    IF ~IsSome(message.body) THEN Err(NoBodyError)
    ELSE LET parsed == DeserializeItemEvent(message.body.v, uuid, now)
         IN  IF parsed.ok THEN Ok(parsed.event)
             ELSE Ok(ItemEvent("Created",
                               Item(uuid, <<>>, None, now, default_classification),
                               now))

\* process_sqs_message from its entry to the match on event_type: Err(e)
\* when it returns before, Ok(item_event) when it reaches the match.
process_sqs_message(message, uuid, now) ==
    IF ~IsSome(message.body) THEN Err(NoBodyError)
    ELSE LET parsed == DeserializeItemEvent(message.body.v, uuid, now)
         IN  IF parsed.ok THEN Ok(parsed.event) ELSE Err(SerdeError)

\* The item of the events the api-handler publishes, as create_item has it
\* and as delete_item gets it from the repository.
EvItem == Item("x", NameWidget, None, Now(0), "INTERNAL")
EvLooked == ItemFromAttributes(ItemAttributes(EvItem), Now(0))

EventFields(ty, it) ==
    [event_type |-> ty, item |-> it, timestamp |-> JStr(SerializeDateTime(Now(0)))]

\* Message bodies: the events the api-handler publishes, an Updated event,
\* an event whose item has only a name, and bodies that are no ItemEvent.
EventDocuments ==
    {SerializeItemEvent(ItemEvent("Created", EvItem, Now(0))),
     SerializeItemEvent(ItemEvent("Deleted", EvLooked, Now(1))),
     SerializeItemEvent(ItemEvent("Updated", EvItem, Now(2))),
     JObject(EventFields(JStr("Created"), JObject(Fields1("name", JStr(NameWidget))))),
     Malformed,
     SerializeItem(EvItem),
     JObject(EventFields(JStr("Archived"), SerializeItem(EvItem))),
     JObject(EventFields(JStr("Created"), JObject(Fields1("id", JStr("x")))))}

SqsMessages == {SqsMessage(None)} \cup {SqsMessage(Some(d)) : d \in EventDocuments}

\* event.records of one invocation
Batches == UNION {[1..n -> SqsMessages] : n \in 0..MaxBatch}

\* The entry of handled for the record at index k, whose event the match
\* on event_type has taken.
Dispatched(k, ev) == [record |-> k, event |-> ev, done |-> FALSE]

\* The runtime invokes handle_event with a batch; the loop starts.
Invoke ==
    /\ cpc = "idle"
    /\ \E batch \in Batches :
        /\ records' = batch
        /\ IF Len(batch) = 0
           THEN cpc' = "done" /\ cursor' = 0 /\ outcome' = Some(Ok("unit"))
           ELSE cpc' = "process" /\ cursor' = 1 /\ outcome' = None
    /\ handled' = <<>>
    /\ UNCHANGED <<table, queue, clock, pc, req, item, id, resp, effects,
                   table0, queue0, served, calls, probe, audit>>

\* handle_event whose loop goes on to the next record after a failure.
ProcessMessageContinues ==
    /\ cpc = "process"
    /\ \E uuid \in Uuids :
        LET r == process_sqs_message(records[cursor], uuid, Now(clock))
        IN  IF r.ok
            THEN /\ handled' = Append(handled, Dispatched(cursor, r.v))
                 /\ cpc' = "sleep"
                 /\ UNCHANGED <<outcome, cursor>>
            ELSE /\ IF cursor < Len(records)
                    THEN cursor' = cursor + 1 /\ UNCHANGED <<cpc, outcome>>
                    ELSE /\ cpc' = "done" /\ outcome' = Some(Err(r.err))
                         /\ UNCHANGED cursor
                 /\ UNCHANGED handled
    /\ UNCHANGED <<table, queue, clock, pc, req, item, id, resp, effects,
                   table0, queue0, served, calls, probe, audit, records>>

\* process_sqs_message(record, repo) runs on the record at the cursor up to
\* its sleep, or fails; its failure is handle_event's (`?`).
ProcessMessage ==
    /\ cpc = "process"
    /\ \E uuid \in Uuids :
        LET r == process_sqs_message(records[cursor], uuid, Now(clock))
        IN  IF r.ok
            THEN /\ handled' = Append(handled, Dispatched(cursor, r.v))
                 /\ cpc' = "sleep"
                 /\ UNCHANGED outcome
            ELSE /\ cpc' = "done"
                 /\ outcome' = Some(Err(r.err))
                 /\ UNCHANGED handled
    /\ UNCHANGED <<table, queue, clock, pc, req, item, id, resp, effects,
                   table0, queue0, served, calls, probe, audit, records,
                   cursor>>

\* process_sqs_message whose match arms apply the event to the store.
WakeApplyingEvent ==
    /\ cpc = "sleep"
    /\ handled' = [handled EXCEPT ![Len(handled)].done = TRUE]
    /\ IF cursor < Len(records)
       THEN cpc' = "process" /\ cursor' = cursor + 1 /\ UNCHANGED outcome
       ELSE cpc' = "done" /\ outcome' = Some(Ok("unit")) /\ UNCHANGED cursor
    /\ LET ev == handled[Len(handled)].event
       IN  table' = IF ev.event_type = "Deleted"
                    THEN StoreDelete(table, ev.item.id)
                    ELSE StorePut(table, ev.item.id, ItemAttributes(ev.item))
    /\ UNCHANGED <<queue, clock, pc, req, item, id, resp, effects,
                   table0, queue0, served, calls, probe, audit, records>>

\* The sleep of the match arm ends, process_sqs_message returns Ok(()), and
\* the loop takes the next record or handle_event returns Ok(()).
Wake ==
    /\ cpc = "sleep"
    /\ handled' = [handled EXCEPT ![Len(handled)].done = TRUE]
    /\ IF cursor < Len(records)
       THEN cpc' = "process" /\ cursor' = cursor + 1 /\ UNCHANGED outcome
       ELSE cpc' = "done" /\ outcome' = Some(Ok("unit")) /\ UNCHANGED cursor
    /\ UNCHANGED <<table, queue, clock, pc, req, item, id, resp, effects,
                   table0, queue0, served, calls, probe, audit, records>>

\* The result of handle_event has been handed to the runtime.
Complete ==
    /\ cpc = "done"
    /\ cpc' = "idle"
    /\ records' = <<>>
    /\ cursor' = 0
    /\ handled' = <<>>
    /\ outcome' = None
    /\ UNCHANGED <<table, queue, clock, pc, req, item, id, resp, effects,
                   table0, queue0, served, calls, probe, audit>>

NextConsumer == Invoke \/ ProcessMessage \/ Wake \/ Complete

\* The event-processor Lambda handling one batch at a time.
SpecConsumer == Init /\ [][NextConsumer]_vars

\* The messages the event source can hand to the consumer: every message
\* the api-handler has published, as often as the queue redelivers it, and
\* an Updated event, which no handler of this repository publishes.
Deliverable(q) ==
    {SqsMessage(Some(q[k])) : k \in DOMAIN q}
        \cup {SqsMessage(Some(SerializeItemEvent(ItemEvent("Updated", EvItem, Now(0)))))}

\* The batches the event source makes of the queue q: one of its messages,
\* alone or followed by one more deliverable message, which is the same
\* message again when the queue redelivers it.
Deliveries(q) ==
    {<<SqsMessage(Some(q[k]))>> : k \in DOMAIN q}
        \cup {<<SqsMessage(Some(q[k])), m>> : k \in DOMAIN q, m \in Deliverable(q)}

\* The event source mapping invokes handle_event with messages of the queue.
\* The consumer reads and writes nothing the api-handler does, so its
\* invocations are taken between two requests of the api-handler.
Deliver ==
    /\ cpc = "idle"
    /\ \A i \in Invocations : pc[i] = "idle"
    /\ queue # <<>>
    /\ \E batch \in Deliveries(queue) :
        /\ records' = batch
        /\ cpc' = "process" /\ cursor' = 1 /\ outcome' = None
    /\ handled' = <<>>
    /\ UNCHANGED <<table, queue, clock, pc, req, item, id, resp, effects,
                   table0, queue0, served, calls, probe, audit>>

NextPipeline ==
    \/ cpc = "idle" /\ Next
    \/ Deliver
    \/ ProcessMessage
    \/ Wake
    \/ Complete

\* The api-handler and the event-processor it feeds, running side by side.
SpecPipeline == Init /\ [][NextPipeline]_vars

-----------------------------------------------------------------------------
(* Properties *)

IsCreate(r) == r.method = "POST" /\ r.path = "/items"
IsDelete(r) == r.method = "DELETE" /\ starts_with(r.path, "/items/")

\* The request is a POST /items whose body parses as an Item.
PostsItem(r) ==
    /\ IsCreate(r)
    /\ r.body.kind # "Empty"
    /\ DeserializeItem(r.body.doc, "uuid", Now(0)).ok
\* The name of the item such a request posts.
PostedName(r) == r.body.doc.fields["name"].v

IsResponse(r, status) == r.kind = "Response" /\ r.status = status
ErrorBody(message) == JObject([message |-> JStr(message)])
IsErrorBody(b) ==
    /\ DOMAIN b = {"json", "fields"}
    /\ DOMAIN b.fields = {"message"}
    /\ IsJStr(b.fields["message"])

\* The last message of the queue is the event ty of the item with id key,
\* and the queue before it is q0.
Published(q0, ty, key) ==
    /\ Len(queue) = Len(q0) + 1
    /\ SubSeq(queue, 1, Len(q0)) = q0
    /\ queue[Len(queue)].fields["event_type"] = JStr(ty)
    /\ queue[Len(queue)].fields["item"].fields["id"] = JStr(key)

\* C1: a POST /items whose item has an empty name is answered 400 with the
\* Validation error, and the request makes no store call and publishes
\* nothing: the table and the queue are as they were when it arrived.
C1_EmptyNameRejected ==
    \A i \in Invocations :
        (pc[i] = "done" /\ PostsItem(req[i].v) /\ Len(PostedName(req[i].v)) = 0)
        => /\ IsResponse(resp[i], 400)
           /\ resp[i].body = ErrorBody("Validation error: Item name cannot be empty")
           /\ effects[i] = <<>>
           /\ table = table0[i]
           /\ queue = queue0[i]

C1_Witness ==
    \E i \in Invocations :
        /\ pc[i] = "done" /\ PostsItem(req[i].v) /\ Len(PostedName(req[i].v)) = 0
        /\ IsResponse(resp[i], 400)
        /\ table # EmptyTable
        /\ queue # <<>>

\* C2: a request answered 201 made exactly the calls put, send(Created), in
\* that order and both successful, and a request answered 204 exactly get,
\* delete, send(Deleted); the queue gained exactly that one event, and it
\* was sent before the response existed.
C2_OneEventAfterWrite ==
    \A i \in Invocations :
        /\ (pc[i] = "done" /\ IsResponse(resp[i], 201))
           => /\ IsCreate(req[i].v)
              /\ effects[i] = <<Put(item[i].v.id, TRUE),
                                Send("Created", item[i].v.id, TRUE)>>
              /\ Published(queue0[i], "Created", item[i].v.id)
        /\ (pc[i] = "done" /\ IsResponse(resp[i], 204))
           => /\ IsDelete(req[i].v)
              /\ effects[i] = <<Get(id[i], TRUE), Delete(id[i], TRUE),
                                Send("Deleted", id[i], TRUE)>>
              /\ Published(queue0[i], "Deleted", id[i])
        /\ (pc[i] # "done" /\ pc[i] # "idle") => resp[i] = NoResponse

C2_Witness ==
    \E i \in Invocations :
        /\ pc[i] = "done" /\ IsResponse(resp[i], 204)
        /\ Len(queue) = 2
        /\ queue[1].fields["event_type"] = JStr("Created")
        /\ queue[2].fields["event_type"] = JStr("Deleted")

\* C3: when the store write of a POST succeeded and the publish failed, the
\* response is the publish error with status 500 and the table still holds
\* the written item; when the store delete of a DELETE succeeded and the
\* publish failed, the response is 500 and the item is gone.
C3_PublishFailureNoRollback ==
    \A i \in Invocations :
        /\ (pc[i] = "done"
            /\ Len(effects[i]) = 2
            /\ effects[i][1] = Put(item[i].v.id, TRUE)
            /\ effects[i][2] = Send("Created", item[i].v.id, FALSE))
           => /\ IsResponse(resp[i], 500)
              /\ resp[i].body = ErrorBody("SQS error: service error")
              /\ item[i].v.id \in DOMAIN table
              /\ table[item[i].v.id] = ItemAttributes(item[i].v)
              /\ queue = queue0[i]
        /\ (pc[i] = "done"
            /\ Len(effects[i]) = 3
            /\ effects[i][2] = Delete(id[i], TRUE)
            /\ effects[i][3] = Send("Deleted", id[i], FALSE))
           => /\ IsResponse(resp[i], 500)
              /\ resp[i].body = ErrorBody("SQS error: service error")
              /\ id[i] \notin DOMAIN table
              /\ queue = queue0[i]

C3_WitnessDelete ==
    \E i \in Invocations :
        /\ pc[i] = "done"
        /\ Len(effects[i]) = 3
        /\ effects[i][2] = Delete(id[i], TRUE)
        /\ effects[i][3] = Send("Deleted", id[i], FALSE)
        /\ IsResponse(resp[i], 500)
        /\ id[i] \in DOMAIN table0[i]

C3_Witness ==
    \E i \in Invocations :
        /\ pc[i] = "done"
        /\ Len(effects[i]) = 2
        /\ effects[i][2] = Send("Created", item[i].v.id, FALSE)
        /\ IsResponse(resp[i], 500)
        /\ item[i].v.id \notin DOMAIN table0[i]
        /\ item[i].v.id \in DOMAIN table

ItemFields == {"id", "name", "description", "created_at", "classification"}

\* C4: in every run of repository calls, a get(id) that directly follows a
\* successful create(item) with that id returns an item equal to the input
\* on each of id, name, description, created_at and classification.
C4_RoundTrip ==
    \A k \in 1..(Len(calls) - 1) :
        (/\ calls[k].op = "create" /\ calls[k].result.ok
         /\ calls[k + 1].op = "get" /\ calls[k + 1].avail
         /\ calls[k + 1].key = calls[k].item.id)
        => /\ calls[k + 1].result.ok
           /\ IsSome(calls[k + 1].result.v)
           /\ \A f \in ItemFields :
                /\ f \in DOMAIN calls[k + 1].result.v.v
                /\ calls[k + 1].result.v.v[f] = calls[k].item[f]

\* C5: every request ends as an HTTP response, and every response with an
\* error status carries a JSON body of the shape {"message": text}.
C5_AlwaysResponse ==
    \A i \in Invocations :
        pc[i] = "done"
        => /\ resp[i].kind = "Response"
           /\ resp[i].status >= 400
                => (resp[i].content_type = "application/json"
                    /\ IsErrorBody(resp[i].body))

\* C6: an Err of kind NotFound is answered 404, of kind Validation 400, of
\* any other kind 500, always with the error's text as JSON message; no
\* error is answered with a 2xx status.
C6_ErrorStatusMapping ==
    (IsSome(probe) /\ probe.v.fn = "handle_request")
    => LET e == probe.v.arg
           r == probe.v.out
       IN  /\ r.kind = "Response"
           /\ e.kind = "NotFound" => r.status = 404
           /\ e.kind = "Validation" => r.status = 400
           /\ e.kind \in {"DynamoDb", "Sqs", "Serialization", "Internal"}
                => r.status = 500
           /\ r.status \notin 200..299
           /\ r.body = ErrorBody(Display(e))

C6_Witness ==
    /\ IsSome(probe) /\ probe.v.fn = "handle_request"
    /\ probe.v.arg.kind = "Serialization"
    /\ probe.v.out.status = 500

\* C7: a POST /items whose body does not parse as an Item is answered 400
\* with a JSON error body, and writes nothing and publishes nothing.
C7_MalformedBodyIs400 ==
    \A i \in Invocations :
        (/\ pc[i] = "done" /\ IsCreate(req[i].v)
         /\ req[i].v.body.kind # "Empty"
         /\ ~DeserializeItem(req[i].v.body.doc, "uuid", Now(0)).ok)
        => /\ IsResponse(resp[i], 400)
           /\ IsErrorBody(resp[i].body)
           /\ effects[i] = <<>>
           /\ table = table0[i]
           /\ queue = queue0[i]

Forbidden(s) == Contains(s, LT) \/ Contains(s, GT) \/ Contains(s, AMP)

\* C8: a create request whose name has more than 100 characters or holds
\* one of < > & is rejected with a Validation error before any store call;
\* one whose name has exactly 100 characters, none of them forbidden, in an
\* otherwise valid item, goes on to the store call.
C8_NameLengthRule ==
    \A i \in Invocations :
        (pc[i] # "idle" /\ PostsItem(req[i].v))
        => LET it == DeserializeItem(req[i].v.body.doc, "uuid", Now(0)).item
               rejected == /\ pc[i] = "done" /\ effects[i] = <<>>
                           /\ IsResponse(resp[i], 400)
           IN  /\ (Len(it.name) > MaxNameLen \/ Forbidden(it.name))
                    => /\ rejected
                       /\ resp[i].body \in
                            {ErrorBody("Validation error: Item name too long (max 100 characters)"),
                             ErrorBody("Validation error: Item name contains invalid characters")}
               /\ (/\ Len(it.name) = MaxNameLen /\ ~Forbidden(it.name)
                   /\ validate_item([it EXCEPT !.name = NameWidget]).ok)
                    => ~rejected

\* The request is a DELETE /items/{id}, the id was not in the table when
\* the request arrived, and the lookup was answered.
DeletesAbsent(i) ==
    /\ pc[i] = "done" /\ IsDelete(req[i].v)
    /\ id[i] \notin DOMAIN table0[i]
    /\ effects[i][1] = Get(id[i], TRUE)

\* C9 (as stated): such a request is answered 404 with the body
\* {"message":"Item with ID <id> not found"}.
C9_NotFoundBodyAsStated ==
    \A i \in Invocations :
        DeletesAbsent(i)
        => /\ IsResponse(resp[i], 404)
           /\ resp[i].body = ErrorBody("Item with ID " \o id[i] \o " not found")

\* C9 (amended): such a request is answered 404 with the body
\* {"message":"Not found: Item with ID <id> not found"}, the text of
\* AppError::NotFound with its "Not found: " prefix.
C9_NotFoundBody ==
    \A i \in Invocations :
        DeletesAbsent(i)
        => /\ IsResponse(resp[i], 404)
           /\ resp[i].body =
                ErrorBody("Not found: Item with ID " \o id[i] \o " not found")
           /\ effects[i] = <<Get(id[i], TRUE)>>

C9_Witness ==
    \E i \in Invocations :
        /\ DeletesAbsent(i)
        /\ id[i] = "missing-id"
        /\ resp[i].body =
            ErrorBody("Not found: Item with ID missing-id not found")

\* C10: a delete on an available store succeeds whether or not the key
\* existed, leaves the key absent, and a get of that key right after it
\* returns None; so two deletes of one key in a row both succeed.
C10_DeleteIdempotent ==
    \A k \in DOMAIN calls :
        (calls[k].op = "delete" /\ calls[k].avail)
        => /\ calls[k].result.ok
           /\ k = Len(calls)
                => /\ calls[k].key \notin DOMAIN table
                   /\ repo_get_item(table, calls[k].key, Now(clock)) = None
           /\ (/\ k < Len(calls)
               /\ calls[k + 1].op = "get" /\ calls[k + 1].avail
               /\ calls[k + 1].key = calls[k].key)
                => calls[k + 1].result = Ok(None)

C10_Witness ==
    /\ Len(calls) = 3
    /\ calls[1].op = "create" /\ calls[1].result.ok
    /\ \A k \in {2, 3} :
        /\ calls[k].op = "delete" /\ calls[k].key = calls[1].item.id
        /\ calls[k].result.ok
    /\ calls[2].existed /\ ~calls[3].existed

\* The first k calls are successful creates with pairwise distinct ids.
DistinctCreates(k) ==
    /\ \A j \in 1..k : calls[j].op = "create" /\ calls[j].result.ok
    /\ \A j, l \in 1..k : j # l => calls[j].item.id # calls[l].item.id

\* C11: starting from the empty store, when the first N calls are successful
\* creates of items with pairwise distinct ids and the next call is a list
\* the store answers, the list returns exactly N items, one per created id.
C11_ListAfterCreates ==
    \A k \in DOMAIN calls :
        (calls[k].op = "list" /\ calls[k].avail /\ DistinctCreates(k - 1))
        => /\ calls[k].result.ok
           /\ Cardinality(calls[k].result.v) = k - 1
           /\ {it.id : it \in calls[k].result.v}
                = {calls[j].item.id : j \in 1..(k - 1)}
           /\ \A j \in 1..(k - 1) :
                \E it \in calls[k].result.v :
                    /\ it.id = calls[j].item.id
                    /\ it.name = calls[j].item.name
                    /\ it.description = calls[j].item.description
                    /\ it.created_at = calls[j].item.created_at

C11_Witness ==
    /\ Len(calls) = 3
    /\ DistinctCreates(2)
    /\ calls[1].item.description = None
    /\ calls[3].op = "list" /\ calls[3].avail
    /\ Cardinality(calls[3].result.v) = 2

\* The (method, path) of r is one of GET /items, GET /items/{id},
\* POST /items, DELETE /items/{id}.
IsRouted(r) ==
    \/ r.method \in {"GET", "POST"} /\ r.path = "/items"
    \/ r.method \in {"GET", "DELETE"} /\ starts_with(r.path, "/items/")

\* C12: a request whose (method, path) is none of the four routes never
\* waits on a store or queue call, and ends with status 404 and the JSON
\* body {"message": "Not found"}, the table and the queue untouched.
C12_UnknownRoute404 ==
    \A i \in Invocations :
        (pc[i] # "idle" /\ ~IsRouted(req[i].v))
        => /\ pc[i] = "done"
           /\ IsResponse(resp[i], 404)
           /\ resp[i].content_type = "application/json"
           /\ IsErrorBody(resp[i].body)
           /\ resp[i].body = ErrorBody("Not found")
           /\ effects[i] = <<>>
           /\ table = table0[i] /\ queue = queue0[i]

C12_Witness ==
    \E i \in Invocations :
        /\ pc[i] = "done"
        /\ req[i].v.method = "POST" /\ req[i].v.path = "/items/x"
        /\ IsResponse(resp[i], 404)
        /\ "x" \in DOMAIN table

\* The request is a POST /items whose body is the JSON object {"name": n}.
PostsNameOnly(r) ==
    /\ IsCreate(r)
    /\ r.body.kind # "Empty"
    /\ r.body.doc.json
    /\ DOMAIN r.body.doc.fields = {"name"}
    /\ IsJStr(r.body.doc.fields["name"])

\* No store or queue call of invocation i has failed.
NoCallFailed(i) == \A k \in DOMAIN effects[i] : effects[i][k].ok

SameFields(a, b) ==
    /\ DOMAIN a \subseteq DOMAIN b
    /\ \A f \in DOMAIN a : b[f] = a[f]

\* C14: an Item, an ItemEventType and an ItemEvent written as JSON and read
\* back are the value written (an item the repository built without a
\* classification comes back with every field it had); the message of a
\* Created event of item x reads back as an ItemEvent with event_type
\* Created and item.id = x.id.
C14_SerdeRoundTrip ==
    IsSome(probe) =>
        LET x == probe.v.arg
            r == probe.v.out
        IN  /\ probe.v.fn = "Item"
                => /\ r.ok
                   /\ SameFields(x, r.item)
                   /\ DOMAIN x = ItemFields => r.item = x
            /\ probe.v.fn = "ItemEventType"
                => r.ok /\ r.event_type = x
            /\ probe.v.fn = "ItemEvent"
                => /\ r.ok
                   /\ r.event.event_type = x.event_type
                   /\ r.event.timestamp = x.timestamp
                   /\ SameFields(x.item, r.event.item)
                   /\ r.event.item.id = x.item.id
                   /\ DOMAIN x.item = ItemFields => r.event = x

C14_Witness ==
    /\ IsSome(probe) /\ probe.v.fn = "ItemEvent"
    /\ probe.v.arg.event_type = "Created"
    /\ probe.v.arg.item.id = "x"
    /\ probe.v.arg.item.description = None
    /\ probe.v.arg.item.created_at = Now(3)
    /\ probe.v.out.ok
    /\ probe.v.out.event = probe.v.arg

\* Processing the message m fails: it has no body, or its body is no
\* ItemEvent.
Fails(m) ==
    \/ ~IsSome(m.body)
    \/ ~DeserializeItemEvent(m.body.v, "uuid", Now(0)).ok

\* The indices of the records of the batch whose processing fails.
Failing == {k \in DOMAIN records : Fails(records[k])}

\* C15: handle_event takes the records in batch order, each once; when the
\* processing of a record fails, handle_event returns the error, the records
\* before it have each been processed to the end, once and in order, and no
\* record after it is processed; it returns Ok only when no record fails.
C15_FailureAbortsBatch ==
    /\ \A j \in DOMAIN handled : handled[j].record = j
    /\ Len(handled) <= cursor
    /\ cpc = "done"
        => /\ IsSome(outcome)
           /\ outcome.v.ok <=> Failing = {}
           /\ outcome.v.ok => Len(handled) = Len(records)
           /\ ~outcome.v.ok
                => /\ cursor \in Failing
                   /\ \A k \in Failing : cursor <= k
                   /\ Len(handled) = cursor - 1
           /\ \A j \in DOMAIN handled : handled[j].done

C15_Witness ==
    /\ cpc = "done"
    /\ ~outcome.v.ok
    /\ Len(records) = 3 /\ cursor = 2
    /\ ~Fails(records[1]) /\ ~Fails(records[3])
    /\ Len(handled) = 1 /\ handled[1].done

\* C16: a message is dispatched only when it has a body that deserializes
\* as an ItemEvent, and then as that event, by its event_type; a message
\* without body fails with the error "SQS message has no body" and a message
\* whose body is no ItemEvent with the deserialization error, neither being
\* dispatched.
C16_RejectBeforeDispatch ==
    /\ \A j \in DOMAIN handled :
        /\ ~Fails(records[handled[j].record])
        /\ \E uuid \in Uuids :
            /\ DeserializeItemEvent(records[handled[j].record].body.v, uuid,
                                    Now(clock)).ok
            /\ handled[j].event
                = DeserializeItemEvent(records[handled[j].record].body.v, uuid,
                                       Now(clock)).event
        /\ JStr(handled[j].event.event_type)
            = records[handled[j].record].body.v.fields["event_type"]
    /\ cpc = "sleep" => handled[Len(handled)].record = cursor
    /\ (cpc = "done" /\ cursor > 0 /\ Fails(records[cursor]))
        => /\ \A j \in DOMAIN handled : handled[j].record # cursor
           /\ outcome = Some(Err(IF IsSome(records[cursor].body)
                                 THEN SerdeError ELSE NoBodyError))

C16_Witness ==
    /\ cpc = "done"
    /\ outcome = Some(Err(SerdeError))
    /\ cursor = 2
    /\ records[2].body
        = Some(JObject(EventFields(JStr("Archived"), SerializeItem(EvItem))))
    /\ Len(handled) = 1
    /\ handled[1].event.event_type = "Deleted"

C16_WitnessNoBody ==
    /\ cpc = "done"
    /\ outcome = Some(Err(NoBodyError))
    /\ cursor = 3
    /\ Len(handled) = 2
    /\ handled[2].event.item.id \in Uuids

IsGet(r) == r.method = "GET" /\ starts_with(r.path, "/items/")

\* C17: a GET /items/{id} whose lookup the store answers returns, when the
\* id is in the store, 200 with the JSON of the stored record as body (its
\* id, name, description and created_at instant) and, when it is not, the
\* NotFound error with status 404; the repository reports the missing key
\* as None, and the request changes neither the table nor the queue.
C17_GetItem ==
    \A i \in Invocations :
        (pc[i] = "done" /\ IsGet(req[i].v) /\ effects[i] = <<Get(id[i], TRUE)>>)
        => /\ table = table0[i] /\ queue = queue0[i]
           /\ id[i] \in DOMAIN table
                => /\ IsSome(repo_get_item(table, id[i], Now(clock)))
                   /\ IsResponse(resp[i], 200)
                   /\ resp[i].content_type = "application/json"
                   /\ resp[i].body.fields["id"] = JStr(id[i])
                   /\ resp[i].body.fields["name"] = JStr(table[id[i]]["name"])
                   /\ resp[i].body.fields["description"]
                        = (IF "description" \in DOMAIN table[id[i]]
                           THEN JStr(table[id[i]]["description"]) ELSE JNull)
                   /\ resp[i].body.fields["created_at"]
                        = JStr(SerializeDateTime(
                            parse_from_rfc3339(table[id[i]]["created_at"]).v))
           /\ id[i] \notin DOMAIN table
                => /\ repo_get_item(table, id[i], Now(clock)) = None
                   /\ IsResponse(resp[i], 404)
                   /\ resp[i].body
                        = ErrorBody(Display(AppError("NotFound",
                            "Item with ID " \o id[i] \o " not found")))

C17_Witness ==
    \E i \in Invocations :
        /\ pc[i] = "done" /\ IsGet(req[i].v)
        /\ req[i].v.path = "/items/x"
        /\ IsResponse(resp[i], 200)
        /\ resp[i].body.fields["description"] = JStr(DescOk)
        /\ resp[i].body.fields["created_at"]
            = JStr(SerializeDateTime(DateTime(1000, 250000000)))

C17_WitnessMissing ==
    \E i \in Invocations :
        /\ pc[i] = "done" /\ IsGet(req[i].v)
        /\ id[i] = "missing-id"
        /\ table # EmptyTable
        /\ IsResponse(resp[i], 404)

\* The Item JSON objects on the wire: the body of a 201 and of a 200 of one
\* item, the elements of the body of a list, and the items inside the
\* events of the queue.
WireItems ==
    {resp[i].body : i \in {j \in Invocations :
        /\ pc[j] = "done"
        /\ IsResponse(resp[j], 200) \/ IsResponse(resp[j], 201)
        /\ IsJObject(resp[j].body)}}
    \cup UNION {{resp[i].body.array[k] : k \in DOMAIN resp[i].body.array} :
            i \in {j \in Invocations :
                /\ pc[j] = "done" /\ IsResponse(resp[j], 200)
                /\ "array" \in DOMAIN resp[j].body}}
    \cup {queue[k].fields["item"] : k \in DOMAIN queue}

\* C18: no Item JSON object on the wire holds a null: an item without
\* description is written without the key "description".
C18_AbsentFieldOmitted ==
    \A j \in WireItems : \A k \in DOMAIN j.fields : j.fields[k] # JNull

\* The item a POST /items request r posts passes validate_item.
PostsValidItem(r) ==
    /\ PostsItem(r)
    /\ validate_item(DeserializeItem(r.body.doc, "uuid", Now(0)).item).ok

\* The audit record of invocation i is the one of action for the item it.
AuditOf(i, action, it) ==
    /\ IsSome(audit[i])
    /\ audit[i].v.action = action
    /\ audit[i].v.resource_id = it.id
    /\ audit[i].v.resource_type = "item"
    /\ audit[i].v.hash = Some(Md5Hex(SerializeItem(it)))

\* C19: a POST /items runs parse, validate, store.create, audit, publish,
\* 201 in that order and stops at the first step that fails.  A body that
\* is absent, does not parse or does not validate ends the request with no
\* store call, no audit record and nothing published.  Otherwise the first
\* call is the put; if it fails the request ends with a 500, no audit
\* record and nothing published; if it succeeds the audit record of the
\* item is built, then the Created event is sent, and only when the send
\* has succeeded is the response 201.
C19_CreateStepOrder ==
    \A i \in Invocations :
        (pc[i] # "idle" /\ IsCreate(req[i].v))
        => /\ pc[i] \in {"create_put", "create_send", "done"}
           /\ ~PostsValidItem(req[i].v)
                => /\ pc[i] = "done"
                   /\ effects[i] = <<>> /\ audit[i] = None
                   /\ table = table0[i] /\ queue = queue0[i]
                   /\ ~IsResponse(resp[i], 201)
           /\ PostsValidItem(req[i].v)
                => /\ pc[i] = "create_put"
                        => /\ effects[i] = <<>> /\ audit[i] = None
                           /\ resp[i] = NoResponse
                           /\ table = table0[i] /\ queue = queue0[i]
                   /\ pc[i] = "create_send"
                        => /\ effects[i] = <<Put(item[i].v.id, TRUE)>>
                           /\ AuditOf(i, "create", item[i].v)
                           /\ audit[i].v.new_state = Some(SerializeItem(item[i].v))
                           /\ audit[i].v.previous_state = None
                           /\ resp[i] = NoResponse
                           /\ queue = queue0[i]
                   /\ pc[i] = "done"
                        => \/ /\ effects[i] = <<Put(item[i].v.id, FALSE)>>
                              /\ audit[i] = None
                              /\ table = table0[i] /\ queue = queue0[i]
                              /\ IsResponse(resp[i], 500)
                           \/ /\ effects[i] = <<Put(item[i].v.id, TRUE),
                                                Send("Created", item[i].v.id, FALSE)>>
                              /\ AuditOf(i, "create", item[i].v)
                              /\ queue = queue0[i]
                              /\ IsResponse(resp[i], 500)
                           \/ /\ effects[i] = <<Put(item[i].v.id, TRUE),
                                                Send("Created", item[i].v.id, TRUE)>>
                              /\ AuditOf(i, "create", item[i].v)
                              /\ Published(queue0[i], "Created", item[i].v.id)
                              /\ IsResponse(resp[i], 201)

C19_Witness ==
    \E i \in Invocations :
        /\ pc[i] = "done" /\ IsCreate(req[i].v)
        /\ IsResponse(resp[i], 201)
        /\ AuditOf(i, "create", item[i].v)
        /\ Len(effects[i]) = 2
        /\ Len(queue) = 2

C19_WitnessStoreFails ==
    \E i \in Invocations :
        /\ pc[i] = "done" /\ PostsValidItem(req[i].v)
        /\ effects[i] = <<Put(item[i].v.id, FALSE)>>
        /\ audit[i] = None
        /\ IsResponse(resp[i], 500)

\* Invocation i handles a DELETE /items/{id} whose id was in the store when
\* the request arrived and whose lookup the store has answered.
DeletesPresent(i) ==
    /\ pc[i] # "idle" /\ IsDelete(req[i].v)
    /\ id[i] \in DOMAIN table0[i]
    /\ Len(effects[i]) >= 1 /\ effects[i][1] = Get(id[i], TRUE)

\* C20: a DELETE /items/{id} of a present id, the lookup done, holds the
\* looked-up item and the audit record of the delete, whose previous_state
\* is the JSON of that item, before the store delete is made; the Deleted
\* event is sent only after a successful delete and carries that item; the
\* response is 204 with an empty body after a successful send.  When the
\* store delete fails the response is 500 and nothing is published.
C20_DeleteStepOrder ==
    \A i \in Invocations :
        DeletesPresent(i)
        => /\ pc[i] \in {"delete_del", "delete_send", "done"}
           /\ IsSome(item[i])
           /\ item[i].v.id = id[i]
           /\ item[i].v.name = table0[i][id[i]]["name"]
           /\ AuditOf(i, "delete", item[i].v)
           /\ audit[i].v.previous_state = Some(SerializeItem(item[i].v))
           /\ audit[i].v.new_state = None
           /\ pc[i] = "delete_del"
                => /\ effects[i] = <<Get(id[i], TRUE)>>
                   /\ table = table0[i] /\ queue = queue0[i]
                   /\ resp[i] = NoResponse
           /\ pc[i] = "delete_send"
                => /\ effects[i] = <<Get(id[i], TRUE), Delete(id[i], TRUE)>>
                   /\ id[i] \notin DOMAIN table
                   /\ queue = queue0[i]
                   /\ resp[i] = NoResponse
           /\ pc[i] = "done"
                => \/ /\ effects[i] = <<Get(id[i], TRUE), Delete(id[i], FALSE)>>
                      /\ table = table0[i] /\ queue = queue0[i]
                      /\ IsResponse(resp[i], 500)
                   \/ /\ effects[i] = <<Get(id[i], TRUE), Delete(id[i], TRUE),
                                        Send("Deleted", id[i], FALSE)>>
                      /\ id[i] \notin DOMAIN table
                      /\ queue = queue0[i]
                      /\ IsResponse(resp[i], 500)
                   \/ /\ effects[i] = <<Get(id[i], TRUE), Delete(id[i], TRUE),
                                        Send("Deleted", id[i], TRUE)>>
                      /\ id[i] \notin DOMAIN table
                      /\ Published(queue0[i], "Deleted", id[i])
                      /\ queue[Len(queue)].fields["item"] = SerializeItem(item[i].v)
                      /\ IsResponse(resp[i], 204)
                      /\ resp[i].body = BodyEmpty

C20_Witness ==
    \E i \in Invocations :
        /\ DeletesPresent(i) /\ pc[i] = "done"
        /\ IsResponse(resp[i], 204)
        /\ IsSome(item[i].v.description)
        /\ Len(queue) = 2
        /\ audit[i].v.previous_state = Some(queue[2].fields["item"])

C20_WitnessDeleteFails ==
    \E i \in Invocations :
        /\ DeletesPresent(i) /\ pc[i] = "done"
        /\ effects[i][2] = Delete(id[i], FALSE)
        /\ IsResponse(resp[i], 500)
        /\ Len(queue) = 1

\* Invocation i was terminated after the successful store write op and
\* before its event was sent.
Orphaned(i, op) ==
    /\ pc[i] = "done" /\ resp[i] = Terminated
    /\ Len(effects[i]) >= 1
    /\ effects[i][Len(effects[i])].op = op
    /\ effects[i][Len(effects[i])].ok

\* The store holds the write of such an invocation and the queue no event
\* of it.
OrphanedWriteStands ==
    \A i \in Invocations :
        /\ Orphaned(i, "put")
            => /\ item[i].v.id \in DOMAIN table
               /\ table[item[i].v.id] = ItemAttributes(item[i].v)
               /\ queue = queue0[i]
        /\ Orphaned(i, "delete")
            => /\ id[i] \in DOMAIN table0[i]
               /\ id[i] \notin DOMAIN table
               /\ queue = queue0[i]

\* C21: an invocation terminated after its store write and before its
\* publish leaves the written item in the store (the deleted item out of
\* it) and no event for it in the queue, and nothing the terminated
\* invocation does afterwards changes the store or the queue.
C21_TerminationLeavesGap ==
    /\ []OrphanedWriteStands
    /\ [][\A i \in Invocations :
            (Orphaned(i, "put") \/ Orphaned(i, "delete"))
            => table' = table /\ queue' = queue]_vars

C21_Witness ==
    \E i \in Invocations :
        /\ Orphaned(i, "put")
        /\ item[i].v.id \notin DOMAIN table0[i]
        /\ item[i].v.id \in DOMAIN table
        /\ Len(queue) = 1

C21_WitnessDelete ==
    \E i \in Invocations :
        /\ Orphaned(i, "delete")
        /\ Len(queue) = 1
        /\ queue[1].fields["event_type"] = JStr("Created")

\* The rules of validation in their order.  Lengths are taken as the code
\* takes them, in bytes of the UTF-8 encoding.
RuleMessages ==
    <<"Item name cannot be empty",
      "Item name too long (max 100 characters)",
      "Item name contains invalid characters",
      "Description too long (max 1000 characters)",
      "Description contains invalid characters",
      "Invalid classification level">>

RuleFails(k, it) ==
    CASE k = 1 -> it.name = <<>>
      [] k = 2 -> Utf8Len(it.name) > MaxNameLen
      [] k = 3 -> Forbidden(it.name)
      [] k = 4 -> IsSome(it.description) /\ Utf8Len(it.description.v) > MaxDescLen
      [] k = 5 -> IsSome(it.description) /\ Forbidden(it.description.v)
      [] k = 6 -> it.classification
                    \notin {"PUBLIC", "INTERNAL", "CONFIDENTIAL", "RESTRICTED"}

\* C22: validate returns Ok exactly when none of the six rules fails, and
\* otherwise the Validation error of the first rule that fails, in the order
\* empty name, name too long, forbidden characters in name, description too
\* long, forbidden characters in description, invalid classification; it
\* changes nothing of the store, the queue or the clock.
C22_ValidateRuleOrder ==
    (IsSome(probe) /\ probe.v.fn = "validate_item")
    => /\ probe.v.out.ok <=> \A k \in DOMAIN RuleMessages : ~RuleFails(k, probe.v.arg)
       /\ \A k \in DOMAIN RuleMessages :
            (RuleFails(k, probe.v.arg)
             /\ \A j \in 1..(k - 1) : ~RuleFails(j, probe.v.arg))
            => probe.v.out = Err(AppError("Validation", RuleMessages[k]))
       /\ table = EmptyTable /\ queue = <<>> /\ clock = 0

\* An item that fails the third, the fifth and the sixth rule.
C22_Witness ==
    /\ IsSome(probe) /\ probe.v.fn = "validate_item"
    /\ Forbidden(probe.v.arg.name)
    /\ Len(probe.v.arg.name) <= MaxNameLen
    /\ IsSome(probe.v.arg.description)
    /\ Forbidden(probe.v.arg.description.v)
    /\ probe.v.arg.classification = "SECRET"
    /\ probe.v.out
        = Err(AppError("Validation", "Item name contains invalid characters"))

\* C23: validate accepts every item whose name has between 1 and 100
\* characters, none of them < > or &, whose description (if any) has at
\* most 1000 characters and none of these, and whose classification is one
\* of the four levels: the length of the name is its number of characters.
C23_NameLengthInCharacters ==
    (/\ IsSome(probe) /\ probe.v.fn = "validate_item"
     /\ Len(probe.v.arg.name) \in 1..MaxNameLen
     /\ ~Forbidden(probe.v.arg.name)
     /\ IsSome(probe.v.arg.description)
            => /\ Len(probe.v.arg.description.v) <= MaxDescLen
               /\ ~Forbidden(probe.v.arg.description.v)
     /\ probe.v.arg.classification
            \in {"PUBLIC", "INTERNAL", "CONFIDENTIAL", "RESTRICTED"})
    => probe.v.out.ok

C24_WitnessCreate ==
    /\ IsSome(probe) /\ probe.v.fn = "create_audit_record"
    /\ probe.v.arg.action = "create"
    /\ probe.v.arg.previous_state = None
    /\ probe.v.out.new_state = Some(SerializeItem(probe.v.arg.item))
    /\ probe.v.out.resource_id = probe.v.arg.item.id

\* C25: no step of a consumer invocation (the start of the batch, the
\* parsing and dispatch of a record, the end of its simulated work, the
\* return) changes the store or the queue, whatever the event type, so a
\* message handled a second time leaves them as the first handling did; and
\* two records of a batch with the same body are dispatched as the same event.
C25_ConsumerMutatesNothing ==
    /\ [][evVars' # evVars => (table' = table /\ queue' = queue)]_vars
    /\ [](\A a, b \in DOMAIN handled :
            records[handled[a].record] = records[handled[b].record]
            => handled[a].event = handled[b].event)

C25_Witness ==
    /\ cpc = "done" /\ outcome = Some(Ok("unit"))
    /\ Len(records) = 2 /\ records[1] = records[2]
    /\ Len(handled) = 2 /\ handled[1].done /\ handled[2].done
    /\ handled[2].event.event_type = "Created"
    /\ table # EmptyTable
    /\ Len(queue) = 1

C25_WitnessDeleted ==
    /\ cpc = "done" /\ outcome = Some(Ok("unit"))
    /\ Len(records) = 2 /\ records[1] = records[2]
    /\ Len(handled) = 2 /\ handled[1].done /\ handled[2].done
    /\ handled[2].event.event_type = "Deleted"
    /\ Len(queue) = 2

C25_WitnessUpdated ==
    /\ cpc = "done" /\ outcome = Some(Ok("unit"))
    /\ Len(handled) = 2 /\ handled[2].done
    /\ handled[2].event.event_type = "Updated"
    /\ table # EmptyTable

\* The body of the message m is an event whose item lacks one of the fields
\* id, created_at and classification.
ItemOmits(m) ==
    /\ IsSome(m.body)
    /\ IsJObject(m.body.v)
    /\ "item" \in DOMAIN m.body.v.fields
    /\ IsJObject(m.body.v.fields["item"])
    /\ {"id", "created_at", "classification"}
           \ DOMAIN m.body.v.fields["item"].fields # {}

\* C26: a record whose event body omits the id, the created_at or the
\* classification of the item is never dispatched to the match on the event
\* type, and the invocation that stops at it returns the parse error.
C26_NoFieldRecovery ==
    \A k \in DOMAIN records :
        ItemOmits(records[k])
        => /\ \A h \in DOMAIN handled : handled[h].record # k
           /\ (cpc = "done" /\ cursor = k) => outcome = Some(Err(SerdeError))

\* The record of the table tbl under the key k has an id and a name.
HasIdAndName(tbl, k) == {"id", "name"} \subseteq DOMAIN tbl[k]

\* C27: list() on a table succeeds and returns exactly one item for every
\* record that has an id and a name (with that id and name) and none for a
\* record missing either; get(key) on a stored record succeeds with an item
\* whose id and name are the record's, the empty string standing for a
\* missing one.
C27_ListSkipsGetDefaults ==
    (IsSome(probe) /\ probe.v.fn = "repository")
    => LET tbl == probe.v.arg.table
           key == probe.v.arg.key
           listed == probe.v.out.list
           got == probe.v.out.get
           whole == {k \in DOMAIN tbl : HasIdAndName(tbl, k)}
       IN  /\ listed.ok
           /\ Cardinality(listed.v) = Cardinality(whole)
           /\ \A k \in whole :
                \E it \in listed.v : it.id = tbl[k]["id"] /\ it.name = tbl[k]["name"]
           /\ got.ok
           /\ IsSome(got.v) <=> key \in DOMAIN tbl
           /\ key \in DOMAIN tbl
                => /\ got.v.v.id = IF "id" \in DOMAIN tbl[key]
                                   THEN tbl[key]["id"] ELSE ""
                   /\ got.v.v.name = IF "name" \in DOMAIN tbl[key]
                                     THEN tbl[key]["name"] ELSE <<>>

C27_Witness ==
    /\ IsSome(probe) /\ probe.v.fn = "repository"
    /\ DOMAIN probe.v.arg.table = RepoIds
    /\ probe.v.arg.key = "x"
    /\ "name" \notin DOMAIN probe.v.arg.table["x"]
    /\ "id" \in DOMAIN probe.v.arg.table["x"]
    /\ HasIdAndName(probe.v.arg.table, "y")
    /\ Cardinality(probe.v.out.list.v) = 1
    /\ IsSome(probe.v.out.get.v)
    /\ probe.v.out.get.v.v.name = <<>>

C27_WitnessNoId ==
    /\ IsSome(probe) /\ probe.v.fn = "repository"
    /\ probe.v.arg.key = "x"
    /\ "x" \in DOMAIN probe.v.arg.table
    /\ DOMAIN probe.v.arg.table["x"] = {"name"}
    /\ probe.v.out.list.v = {}
    /\ IsSome(probe.v.out.get.v)
    /\ probe.v.out.get.v.v.id = ""

\* The request of invocation i is one that is not to mutate: GET /items,
\* GET /items/{id}, a (method, path) that is no route, or DELETE /items/{id}
\* for an id that was not in the table when the request arrived.
NonMutating(i) ==
    /\ IsSome(req[i])
    /\ \/ req[i].v.method = "GET" /\ req[i].v.path = "/items"
       \/ IsGet(req[i].v)
       \/ ~IsRouted(req[i].v)
       \/ IsDelete(req[i].v) /\ id[i] \notin DOMAIN table0[i]

\* The store and queue calls that write.
WritingOps == {"put", "delete", "send"}

\* C28: from its arrival to its return, a request that is not to mutate
\* makes no put, delete or send call, and the table and the queue are what
\* they were when it arrived.
C28_ReadsLeaveStateAlone ==
    \A i \in Invocations :
        NonMutating(i)
        => /\ table = table0[i]
           /\ queue = queue0[i]
           /\ \A k \in DOMAIN effects[i] : effects[i][k].op \notin WritingOps

C28_Witness ==
    /\ NonMutating(1) /\ pc[1] = "done"
    /\ IsDelete(req[1].v) /\ id[1] = "missing-id"
    /\ effects[1] = <<Get("missing-id", TRUE)>>
    /\ IsResponse(resp[1], 404)
    /\ table # EmptyTable /\ queue # <<>>

C28_WitnessList ==
    /\ NonMutating(1) /\ pc[1] = "done"
    /\ req[1].v.method = "GET" /\ req[1].v.path = "/items"
    /\ effects[1] = <<Scan(TRUE)>>
    /\ IsResponse(resp[1], 200)
    /\ table # EmptyTable /\ queue # <<>>

C28_WitnessGet ==
    /\ NonMutating(1) /\ pc[1] = "done"
    /\ IsGet(req[1].v)
    /\ IsResponse(resp[1], 200)
    /\ table # EmptyTable /\ queue # <<>>

C28_WitnessUnrouted ==
    /\ NonMutating(1) /\ pc[1] = "done"
    /\ ~IsRouted(req[1].v)
    /\ effects[1] = <<>>
    /\ table # EmptyTable /\ queue # <<>>

\* The store call that an event of type ty for the key key follows.
WriteFor(ty, key) ==
    IF ty = "Created" THEN Put(key, TRUE) ELSE Delete(key, TRUE)

\* Invocation i has made the call e before the k-th call of its request.
CalledBefore(i, e, k) == \E j \in 1..(k - 1) : effects[i][j] = e

\* C29: with two instances interleaved, every step that changes the queue
\* appends one Created or Deleted event, and it is the publish of a request
\* that has earlier had its own store write answered with success: the put
\* of that item id for Created, the delete of that id for Deleted. And no
\* request calls the queue, successfully or not, unless that write of its
\* own succeeded before.
C29_EventFollowsOwnWrite ==
    /\ [][queue' # queue
            => /\ Len(queue') = Len(queue) + 1
               /\ SubSeq(queue', 1, Len(queue)) = queue
               /\ LET m == queue'[Len(queue')]
                      ty == m.fields["event_type"].v
                      key == m.fields["item"].fields["id"].v
                  IN  /\ ty \in {"Created", "Deleted"}
                      /\ \E i \in Invocations :
                            /\ effects'[i] = Append(effects[i], Send(ty, key, TRUE))
                            /\ CalledBefore(i, WriteFor(ty, key), Len(effects'[i]))
                            /\ IF ty = "Created" THEN IsCreate(req[i].v)
                               ELSE IsDelete(req[i].v)]_vars
    /\ [](\A i \in Invocations : \A k \in DOMAIN effects[i] :
            effects[i][k].op = "send"
            => CalledBefore(i, WriteFor(effects[i][k].event_type,
                                        effects[i][k].key), k))

\* Both instances are in flight, one having published Created for "x" and
\* the other Deleted for "x".
C29_Witness ==
    /\ Len(queue) = 2
    /\ effects[1] = <<Put("x", TRUE), Send("Created", "x", TRUE)>>
    /\ effects[2] = <<Get("x", TRUE), Delete("x", TRUE), Send("Deleted", "x", TRUE)>>
    /\ pc[1] = "done" /\ pc[2] = "done"

\* A request whose store write failed, next to one that published.
C29_WitnessWriteFails ==
    /\ Len(queue) = 1
    /\ effects[1] = <<Put("x", FALSE)>> /\ pc[1] = "done"
    /\ effects[2] = <<Put("x", TRUE), Send("Created", "x", TRUE)>>

\* C30: with two instances interleaved, a DELETE /items/{id} goes on from
\* its store delete to publish the Deleted event and to answer 204 only when
\* that delete removed a record that was in the table: no other request's
\* delete has come between its lookup and its delete, so that of the
\* concurrent deletes of one stored item at most one is answered 204.
C30_OneDeletePerCreation ==
    [][\A i \in Invocations :
        (pc[i] = "delete_del" /\ pc'[i] = "delete_send")
        => id[i] \in DOMAIN table]_vars

\* The request of invocation i is a POST /items of a valid item whose id
\* was in the table when the request arrived.
PostsStored(i) ==
    /\ IsSome(req[i]) /\ IsCreate(req[i].v)
    /\ IsSome(item[i])
    /\ item[i].v.id \in DOMAIN table0[i]

\* C31: a POST /items of a valid item whose id is already in the store is
\* not rejected for that: it goes to the store write and, its store and
\* queue calls succeeding, the record under that id is the posted item's
\* and no longer the old one, the table has the same keys as before and
\* every other record is unchanged, one Created event for the id is
\* published and the answer is 201 with the item as body; any other answer
\* to it is that of a failed store or queue call.
C31_CreateOverwrites ==
    \A i \in Invocations :
        PostsStored(i)
        => /\ pc[i] \in {"create_put", "create_send", "done"}
           /\ (pc[i] = "done" /\ NoCallFailed(i))
                => /\ effects[i] = <<Put(item[i].v.id, TRUE),
                                     Send("Created", item[i].v.id, TRUE)>>
                   /\ DOMAIN table = DOMAIN table0[i]
                   /\ table[item[i].v.id] = ItemAttributes(item[i].v)
                   /\ \A k \in DOMAIN table \ {item[i].v.id} : table[k] = table0[i][k]
                   /\ Published(queue0[i], "Created", item[i].v.id)
                   /\ resp[i] = Response(201, "application/json",
                                         SerializeItem(item[i].v))
           /\ (pc[i] = "done" /\ ~NoCallFailed(i))
                => /\ IsResponse(resp[i], 500)
                   /\ queue = queue0[i]

C31_Witness ==
    /\ PostsStored(1) /\ pc[1] = "done"
    /\ item[1].v.id = "x"
    /\ IsResponse(resp[1], 201)
    /\ table0[1]["x"] # ItemAttributes(item[1].v)
    /\ table["x"] = ItemAttributes(item[1].v)
    /\ "description" \in DOMAIN table0[1]["x"]
    /\ "description" \notin DOMAIN table["x"]
    /\ Len(queue) = 2

\* The path p without one leading "/items/".
AfterItemsPrefix(p) == SubSeq(p, Len("/items/") + 1, Len(p))

\* C32: for a GET or DELETE whose path starts with "/items/", the id the
\* handler is given, and the key of its store lookup, is the rest of the
\* path after one leading "/items/", also when that rest begins with
\* "/items/" itself.
C32_IdIsPathRemainder ==
    \A i \in Invocations :
        (/\ IsSome(req[i])
         /\ req[i].v.method \in {"GET", "DELETE"}
         /\ starts_with(req[i].v.path, "/items/"))
        => /\ id[i] = AfterItemsPrefix(req[i].v.path)
           /\ effects[i] # <<>>
                => /\ effects[i][1].op = "get"
                   /\ effects[i][1].key = AfterItemsPrefix(req[i].v.path)

====
